---- MODULE Spec2Model ----
(***************************************************************************)
(* Verkle trie (verkle_trie_eip/verkle_trie.py): the trie with its         *)
(* commitment-maintaining insert, the lookup, the multiproof builder and   *)
(* the verifier.                                                           *)
(*                                                                         *)
(* Scale.  The source works on 32-byte keys (31-byte stem, 1-byte suffix), *)
(* 32-byte values (two 16-byte halves), a fan-out of 2^8 and the           *)
(* Bandersnatch scalar field.  The model keeps every formula of the source *)
(* and shrinks the sizes: a byte has WIDTH_BITS bits, a stem StemLen       *)
(* bytes, a value half HalfLen bytes.  The relations the source relies on  *)
(* are kept: a byte ranges over the child indices, the suffix halves split *)
(* at WIDTH/2, the marker 2^128 is the first integer above every value     *)
(* half, and MODULUS exceeds every stem integer and every lifted half.     *)
(*                                                                         *)
(* Group.  A point is the vector of its coordinates over the Pedersen      *)
(* basis G[0..WIDTH-1] (the basis points are independent: no relation      *)
(* between them is known).  Scalars are taken modulo MODULUS, the order of *)
(* the group.                                                              *)
(***************************************************************************)
EXTENDS Integers, Sequences, FiniteSets, TLC

\* ----------------------------------------------------------------- sizes
WIDTH_BITS == 2
WIDTH == 2 ^ WIDTH_BITS
StemLen == 3
KEY_LENGTH == StemLen + 1
HalfLen == 1
VALUE_LENGTH == 2 * HalfLen
TwoPow128 == WIDTH ^ HalfLen
MODULUS == WIDTH ^ StemLen + 1

VERKLE_TRIE_NODE_TYPE_INNER == 0
VERKLE_TRIE_NODE_TYPE_SUFFIX_TREE == 1

VERKLE_PROOF_COMMITMENT_TYPE_INNER == 0
VERKLE_PROOF_COMMITMENT_TYPE_EXTENSION == 1
VERKLE_PROOF_COMMITMENT_TYPE_SUFFIX_TREE_C1 == 2
VERKLE_PROOF_COMMITMENT_TYPE_SUFFIX_TREE_C2 == 3

VERKLE_PROOF_EXTENSION_PRESENT_NOEXTENSION == 0
VERKLE_PROOF_EXTENSION_PRESENT_PRESENT == 1
VERKLE_PROOF_EXTENSION_PRESENT_OTHERSTEM == 2

Indices == 0 .. (WIDTH - 1)

\* A node field that the dict does not hold ("commitment_field" not in node).
NoField == -1
NoPoint == << >>
\* Python's None, for a value.
None == << -1 >>

\* ----------------------------------------------------------- bytes, ints
Min(a, b) == IF a < b THEN a ELSE b

\* b[lo:hi] of Python (0-based, hi exclusive, clipped to the length).
Slice(b, lo, hi) == SubSeq(b, lo + 1, Min(hi, Len(b)))

\* A local variable: e is evaluated once and the rest, F, reads its value.
Let(e, F(_)) == CHOOSE result \in {F(x) : x \in {e}} : TRUE

RECURSIVE int_from_bytes_little(_)
int_from_bytes_little(b) ==
    IF Len(b) = 0 THEN 0 ELSE b[1] + WIDTH * int_from_bytes_little(Tail(b))

get_stem(key) == Slice(key, 0, StemLen)

get_suffix(key) == key[KEY_LENGTH]

\* ---------------------------------------------------------------- points
PointZero == [i \in Indices |-> 0]

\* BASIS["G"][i]
G(i) == [j \in Indices |-> IF j = i THEN 1 ELSE 0]

PointAdd(p, q) == [i \in Indices |-> (p[i] + q[i]) % MODULUS]

PointMul(p, s) == [i \in Indices |-> (p[i] * (s % MODULUS)) % MODULUS]

\* ipa_utils.pedersen_commit_sparse: sum of d[i] * G[i] over the dict d.
pedersen_commit_sparse(d) ==
    [i \in Indices |-> IF i \in DOMAIN d THEN d[i] % MODULUS ELSE 0]

\* Point.serialize / Point().deserialize: the wire form of a point is the
\* sequence of its coordinates.
serialize(point) == [i \in 1 .. WIDTH |-> point[i - 1]]
deserialize(bytes) == [i \in Indices |-> bytes[i + 1]]

\* int.from_bytes(b, "little") % MODULUS, reduced digit by digit.
RECURSIVE IntFromBytesMod(_)
IntFromBytesMod(b) ==
    IF Len(b) = 0 THEN 0 ELSE (b[1] + WIDTH * IntFromBytesMod(Tail(b))) % MODULUS

commitment_to_field(commitment) == IntFromBytesMod(serialize(commitment))

\* ----------------------------------------------------------------- nodes
InnerNode(slot) ==
    [node_type |-> VERKLE_TRIE_NODE_TYPE_INNER, slot |-> slot,
     commitment |-> NoPoint, commitment_field |-> NoField]

\* {"node_type": SUFFIX_TREE, "stem": stem, suffix: value}
SuffixNode(stem, suffix, value) ==
    [node_type |-> VERKLE_TRIE_NODE_TYPE_SUFFIX_TREE, stem |-> stem,
     slot |-> (suffix :> value),
     C1 |-> NoPoint, C1_field |-> NoField, C2 |-> NoPoint, C2_field |-> NoField,
     commitment |-> NoPoint, commitment_field |-> NoField]

EmptyRoot == InnerNode(<< >>)

IsInner(node) == node.node_type = VERKLE_TRIE_NODE_TYPE_INNER

Half == WIDTH \div 2

\* Mutant: the lower half without the 2**128 marker, which makes a written
\* all-zero value open like a never written slot.
value_lower_NoMarker(value) == int_from_bytes_little(Slice(value, 0, HalfLen))

\* int.from_bytes(value[:16], "little") + 2**128 and
\* int.from_bytes(value[16:], "little") (lines 167-171, 652-654, 767-768).
value_lower(value) == int_from_bytes_little(Slice(value, 0, HalfLen)) + TwoPow128
value_upper(value) == int_from_bytes_little(Slice(value, HalfLen, Len(value)))

\* int.from_bytes(value[16 * j:16 * (j + 1)], "little") + (1 - j) * 2**128
\* (lines 238, 243, 298, 303, 655, 668).
value_part(value, j) ==
    int_from_bytes_little(Slice(value, HalfLen * j, HalfLen * (j + 1))) + (1 - j) * TwoPow128

\* The dict committed as C1 (base = 0) or C2 (base = Half) of a suffix node:
\* {2i+j: int(node[base+i][16j:16(j+1)]) + (1-j) * 2^128, i < 128, j < 2, base+i in node}
SuffixVector(node, base) ==
    [z \in {2 * i + j : i \in {i \in 0 .. (Half - 1) : base + i \in DOMAIN node.slot},
                        j \in 0 .. 1} |->
        value_part(node.slot[base + (z \div 2)], z % 2)]

ExtensionVector(stem, C1_field, C2_field) ==
    (0 :> 1) @@ (1 :> int_from_bytes_little(stem)) @@ (2 :> C1_field) @@ (3 :> C2_field)

\* Mutant: line 268 dropped, the pass recurses into every child.
RECURSIVE verkle_add_missing_commitments_All(_)
verkle_add_missing_commitments_All(node) ==
    IF node.node_type = VERKLE_TRIE_NODE_TYPE_SUFFIX_TREE THEN
        LET C1 == pedersen_commit_sparse(SuffixVector(node, 0))
            C2 == pedersen_commit_sparse(SuffixVector(node, Half))
            C1_field == commitment_to_field(C1)
            C2_field == commitment_to_field(C2)
            commitment == pedersen_commit_sparse(ExtensionVector(node.stem, C1_field, C2_field))
        IN [node EXCEPT !.C1 = C1, !.C1_field = C1_field,
                        !.C2 = C2, !.C2_field = C2_field,
                        !.commitment = commitment,
                        !.commitment_field = commitment_to_field(commitment)]
    ELSE
        LET slot == [i \in DOMAIN node.slot |->
                        verkle_add_missing_commitments_All(node.slot[i])]
            child == [i \in DOMAIN slot |-> slot[i].commitment_field]
            commitment == pedersen_commit_sparse(child)
        IN [node EXCEPT !.slot = slot, !.commitment = commitment,
                        !.commitment_field = commitment_to_field(commitment)]

RECURSIVE verkle_add_missing_commitments(_)
verkle_add_missing_commitments(node) ==
    IF node.node_type = VERKLE_TRIE_NODE_TYPE_SUFFIX_TREE THEN
        LET C1 == pedersen_commit_sparse(SuffixVector(node, 0))
            C2 == pedersen_commit_sparse(SuffixVector(node, Half))
            C1_field == commitment_to_field(C1)
            C2_field == commitment_to_field(C2)
            commitment == pedersen_commit_sparse(ExtensionVector(node.stem, C1_field, C2_field))
        IN [node EXCEPT !.C1 = C1, !.C1_field = C1_field,
                        !.C2 = C2, !.C2_field = C2_field,
                        !.commitment = commitment,
                        !.commitment_field = commitment_to_field(commitment)]
    ELSE
        LET slot == [i \in DOMAIN node.slot |->
                        IF node.slot[i].commitment_field = NoField
                        THEN verkle_add_missing_commitments(node.slot[i])
                        ELSE node.slot[i]]
            child == [i \in DOMAIN slot |-> slot[i].commitment_field]
            commitment == pedersen_commit_sparse(child)
        IN [node EXCEPT !.slot = slot, !.commitment = commitment,
                        !.commitment_field = commitment_to_field(commitment)]

\* -------------------------------------------------------- check_valid_tree
\* The commitments of an inner node recomputed from its children, as
\* check_valid_tree asserts them.
InnerNodeValid(node) ==
    LET child == [i \in DOMAIN node.slot |-> node.slot[i].commitment_field]
        commitment == pedersen_commit_sparse(child)
    IN /\ \A i \in DOMAIN node.slot : node.slot[i].commitment_field # NoField
       /\ node.commitment = commitment
       /\ node.commitment_field = commitment_to_field(commitment)

\* The asserts of check_valid_tree on a suffix node reached along prefix.
SuffixNodeValid(node, prefix) ==
    LET C1 == pedersen_commit_sparse(SuffixVector(node, 0))
        C2 == pedersen_commit_sparse(SuffixVector(node, Half))
        C1_field == commitment_to_field(C1)
        C2_field == commitment_to_field(C2)
        commitment == pedersen_commit_sparse(ExtensionVector(node.stem, C1_field, C2_field))
    IN /\ node.node_type = VERKLE_TRIE_NODE_TYPE_SUFFIX_TREE
       /\ Slice(node.stem, 0, Len(prefix)) = prefix
       /\ node.C1 = C1
       /\ node.C1_field = C1_field
       /\ node.C2 = C2
       /\ node.C2_field = C2_field
       /\ node.commitment = commitment
       /\ node.commitment_field = commitment_to_field(commitment)

\* check_valid_tree(node, prefix): ok is FALSE where an assert of the source
\* fails; values is the dict the source returns.
RECURSIVE check_valid_tree(_, _)
RECURSIVE CheckChildren(_, _, _)
CheckChildren(node, prefix, i) ==
    IF i = WIDTH THEN [ok |-> TRUE, values |-> << >>]
    ELSE LET rest == CheckChildren(node, prefix, i + 1) IN
         IF i \in DOMAIN node.slot
         THEN LET sub == check_valid_tree(node.slot[i], Append(prefix, i))
              IN [ok |-> sub.ok /\ rest.ok, values |-> rest.values @@ sub.values]
         ELSE rest

check_valid_tree(node, prefix) ==
    IF node.node_type = VERKLE_TRIE_NODE_TYPE_INNER THEN
        LET sub == CheckChildren(node, prefix, 0)
        IN [ok |-> InnerNodeValid(node) /\ sub.ok, values |-> sub.values]
    ELSE
        [ok |-> SuffixNodeValid(node, prefix),
         values |-> [k \in {Append(node.stem, i) : i \in DOMAIN node.slot} |->
                        node.slot[k[Len(k)]]]]

\* ------------------------------------------------------ find_node_with_path
\* Returns [path, value]: path is the sequence of <<prefix, index, node>>.
\* Mutant: the lookup trusts the suffix node it lands on without comparing
\* stems (line 375 dropped).
RECURSIVE FindDescend_NoStemCheck(_, _, _)
FindDescend_NoStemCheck(current_node, key, path) ==
    LET stem == get_stem(key) IN
    IF current_node.node_type = VERKLE_TRIE_NODE_TYPE_INNER THEN
        LET index == key[Len(path) + 1]
            path2 == Append(path, << Slice(stem, 0, Len(path)), index, current_node >>)
        IN IF index \in DOMAIN current_node.slot
           THEN FindDescend_NoStemCheck(current_node.slot[index], key, path2)
           ELSE [path |-> path2, value |-> None]
    ELSE
        LET suffix == get_suffix(key)
            path2 == Append(path, << stem, suffix, current_node >>)
        IN IF suffix \in DOMAIN current_node.slot
           THEN [path |-> path2, value |-> current_node.slot[suffix]]
           ELSE [path |-> path2, value |-> None]

RECURSIVE FindDescend(_, _, _)
FindDescend(current_node, key, path) ==
    LET stem == get_stem(key) IN
    IF current_node.node_type = VERKLE_TRIE_NODE_TYPE_INNER THEN
        LET index == key[Len(path) + 1]
            path2 == Append(path, << Slice(stem, 0, Len(path)), index, current_node >>)
        IN IF index \in DOMAIN current_node.slot
           THEN FindDescend(current_node.slot[index], key, path2)
           ELSE [path |-> path2, value |-> None]
    ELSE IF current_node.stem = stem THEN
        LET suffix == get_suffix(key)
            path2 == Append(path, << stem, suffix, current_node >>)
        IN IF suffix \in DOMAIN current_node.slot
           THEN [path |-> path2, value |-> current_node.slot[suffix]]
           ELSE [path |-> path2, value |-> None]
    ELSE [path |-> path, value |-> None]

find_node_with_path(root_node, key) == FindDescend(root_node, key, << >>)

\* What the lookup returns for key.
Lookup(root_node, key) == find_node_with_path(root_node, key).value

\* ------------------------------------ update_verkle_tree_nocommitmentupdate
\* Result of an insert: err = "" and the new node, or the exception raised.
Done(node) == [err |-> "", node |-> node, value_change |-> 0]
Raised(err, node) == [err |-> err, node |-> node, value_change |-> 0]

\* Mutant: lines 145-146 with the two slots exchanged.
RECURSIVE NocommitSplit_SwappedSlots(_, _, _, _, _)
NocommitSplit_SwappedSlots(old_suffix_tree, stem, suffix, value, depth) ==
    LET old_stem == old_suffix_tree.stem IN
    IF depth >= Len(old_stem) \/ depth >= Len(stem) THEN Raised("IndexError", old_suffix_tree)
    ELSE IF old_stem[depth + 1] = stem[depth + 1] THEN
        LET sub == NocommitSplit_SwappedSlots(old_suffix_tree, stem, suffix, value, depth + 1)
        IN IF sub.err # "" THEN sub
           ELSE Done(InnerNode(stem[depth + 1] :> sub.node))
    ELSE
        Done(InnerNode((stem[depth + 1] :> old_suffix_tree)
                       @@ (old_stem[depth + 1] :> SuffixNode(stem, suffix, value))))

\* Mutant: line 146 dropped, the bulk split does not put the old suffix node
\* back.
RECURSIVE NocommitSplit_DropsOld(_, _, _, _, _)
NocommitSplit_DropsOld(old_suffix_tree, stem, suffix, value, depth) ==
    LET old_stem == old_suffix_tree.stem IN
    IF depth >= Len(old_stem) \/ depth >= Len(stem) THEN Raised("IndexError", old_suffix_tree)
    ELSE IF old_stem[depth + 1] = stem[depth + 1] THEN
        LET sub == NocommitSplit_DropsOld(old_suffix_tree, stem, suffix, value, depth + 1)
        IN IF sub.err # "" THEN sub
           ELSE Done(InnerNode(stem[depth + 1] :> sub.node))
    ELSE
        Done(InnerNode(stem[depth + 1] :> SuffixNode(stem, suffix, value)))

\* Lines 134-146: the chain of new inner nodes below the slot that held
\* old_suffix_tree; depth is the index of the next stem byte to compare.
RECURSIVE NocommitSplit(_, _, _, _, _)
NocommitSplit(old_suffix_tree, stem, suffix, value, depth) ==
    LET old_stem == old_suffix_tree.stem IN
    IF depth >= Len(old_stem) \/ depth >= Len(stem) THEN Raised("IndexError", old_suffix_tree)
    ELSE IF old_stem[depth + 1] = stem[depth + 1] THEN
        LET sub == NocommitSplit(old_suffix_tree, stem, suffix, value, depth + 1)
        IN IF sub.err # "" THEN sub
           ELSE Done(InnerNode(stem[depth + 1] :> sub.node))
    ELSE
        Done(InnerNode((old_stem[depth + 1] :> old_suffix_tree)
                       @@ (stem[depth + 1] :> SuffixNode(stem, suffix, value))))

\* Lines 117-146 from current_node at the given depth.
RECURSIVE NocommitDescend(_, _, _, _, _)
NocommitDescend(current_node, stem, suffix, value, depth) ==
    IF depth >= Len(stem) THEN Raised("IndexError", current_node)
    ELSE
    LET index == stem[depth + 1] IN
    IF index \in DOMAIN current_node.slot THEN
        LET child == current_node.slot[index]
            sub == IF child.node_type = VERKLE_TRIE_NODE_TYPE_INNER
                   THEN NocommitDescend(child, stem, suffix, value, depth + 1)
                   ELSE IF child.stem = stem
                   THEN Done([child EXCEPT !.slot = (suffix :> value) @@ @])
                   ELSE NocommitSplit(child, stem, suffix, value, depth + 1)
        IN IF sub.err # "" THEN Raised(sub.err, current_node)
           ELSE Done([current_node EXCEPT !.slot = (index :> sub.node) @@ @])
    ELSE
        Done([current_node EXCEPT !.slot = (index :> SuffixNode(stem, suffix, value)) @@ @])

update_verkle_tree_nocommitmentupdate(root_node, key, value) ==
    IF Len(key) < KEY_LENGTH THEN Raised("IndexError", root_node)
    ELSE NocommitDescend(root_node, get_stem(key), get_suffix(key), value, 0)

\* ------------------------------------------------------- update_verkle_tree
\* Mutant: line 228 dropped, the parent keeps its old commitment_field.
UpdateParent_StaleField(node, index, child, value_change) ==
    LET commitment == PointAdd(node.commitment, PointMul(G(index), value_change))
        old_field == node.commitment_field
        new_field == commitment_to_field(commitment)
    IN [err |-> "",
        node |-> [node EXCEPT !.slot = (index :> child) @@ @,
                              !.commitment = commitment],
        value_change |-> (MODULUS + new_field - old_field) % MODULUS]

\* Mutant: the parent is rebuilt around the new child alone and loses its
\* other children.
UpdateParent_DropsSiblings(node, index, child, value_change) ==
    LET commitment == PointAdd(node.commitment, PointMul(G(index), value_change))
        old_field == node.commitment_field
        new_field == commitment_to_field(commitment)
    IN [err |-> "",
        node |-> [node EXCEPT !.slot = (index :> child),
                              !.commitment = commitment,
                              !.commitment_field = new_field],
        value_change |-> (MODULUS + new_field - old_field) % MODULUS]

\* Lines 224-229, one step of the loop over reversed(path): the parent takes
\* the new child and the delta of the child's commitment_field.
UpdateParent(node, index, child, value_change) ==
    LET commitment == PointAdd(node.commitment, PointMul(G(index), value_change))
        old_field == node.commitment_field
        new_field == commitment_to_field(commitment)
    IN [err |-> "",
        node |-> [node EXCEPT !.slot = (index :> child) @@ @,
                              !.commitment = commitment,
                              !.commitment_field = new_field],
        value_change |-> (MODULUS + new_field - old_field) % MODULUS]

\* Mutant: lines 167-168 take the old halves as 0 also when the suffix is
\* present, so the delta adds the new value without removing the old one.
UpdateInPlace_NoOldValue(node, suffix, value) ==
    LET new_value_lower == value_lower(value)
        new_value_upper == value_upper(value)
        commitment_change ==
            PointAdd(PointMul(G((2 * suffix) % WIDTH), new_value_lower % MODULUS),
                     PointMul(G((2 * suffix + 1) % WIDTH), new_value_upper % MODULUS))
        C1 == IF suffix < Half THEN PointAdd(node.C1, commitment_change) ELSE node.C1
        C2 == IF suffix < Half THEN node.C2 ELSE PointAdd(node.C2, commitment_change)
        C1_field == IF suffix < Half THEN commitment_to_field(C1) ELSE node.C1_field
        C2_field == IF suffix < Half THEN node.C2_field ELSE commitment_to_field(C2)
        commitment ==
            IF suffix < Half
            THEN PointAdd(node.commitment,
                          PointMul(G(2), (MODULUS + C1_field - node.C1_field) % MODULUS))
            ELSE PointAdd(node.commitment,
                          PointMul(G(3), (MODULUS + C2_field - node.C2_field) % MODULUS))
        new_field == commitment_to_field(commitment)
    IN [err |-> "",
        node |-> [node EXCEPT !.slot = (suffix :> value) @@ @,
                              !.C1 = C1, !.C1_field = C1_field,
                              !.C2 = C2, !.C2_field = C2_field,
                              !.commitment = commitment,
                              !.commitment_field = new_field],
        value_change |-> (MODULUS + new_field - node.commitment_field) % MODULUS]

\* Lines 166-188: the stem is present, the value is written in place and the
\* commitments of the suffix node take the deltas.
UpdateInPlace(node, suffix, value) ==
    LET present == suffix \in DOMAIN node.slot
        old_value_lower == IF present THEN value_lower(node.slot[suffix]) ELSE 0
        old_value_upper == IF present THEN value_upper(node.slot[suffix]) ELSE 0
        new_value_lower == value_lower(value)
        new_value_upper == value_upper(value)
        commitment_change ==
            PointAdd(PointMul(G((2 * suffix) % WIDTH),
                              (MODULUS + new_value_lower - old_value_lower) % MODULUS),
                     PointMul(G((2 * suffix + 1) % WIDTH),
                              (MODULUS + new_value_upper - old_value_upper) % MODULUS))
        C1 == IF suffix < Half THEN PointAdd(node.C1, commitment_change) ELSE node.C1
        C2 == IF suffix < Half THEN node.C2 ELSE PointAdd(node.C2, commitment_change)
        C1_field == IF suffix < Half THEN commitment_to_field(C1) ELSE node.C1_field
        C2_field == IF suffix < Half THEN node.C2_field ELSE commitment_to_field(C2)
        commitment ==
            IF suffix < Half
            THEN PointAdd(node.commitment,
                          PointMul(G(2), (MODULUS + C1_field - node.C1_field) % MODULUS))
            ELSE PointAdd(node.commitment,
                          PointMul(G(3), (MODULUS + C2_field - node.C2_field) % MODULUS))
        new_field == commitment_to_field(commitment)
    IN [err |-> "",
        node |-> [node EXCEPT !.slot = (suffix :> value) @@ @,
                              !.C1 = C1, !.C1_field = C1_field,
                              !.C2 = C2, !.C2_field = C2_field,
                              !.commitment = commitment,
                              !.commitment_field = new_field],
        value_change |-> (MODULUS + new_field - node.commitment_field) % MODULUS]

\* Mutant: lines 206-207 with the two slots exchanged.
RECURSIVE SplitChain_SwappedSlots(_, _, _, _, _)
SplitChain_SwappedSlots(old_node, stem, suffix, value, depth) ==
    IF depth >= Len(old_node.stem) \/ depth >= Len(stem) THEN Raised("IndexError", old_node)
    ELSE
    LET new_index == stem[depth + 1]
        old_index == old_node.stem[depth + 1]
    IN IF old_index = new_index THEN
           LET sub == SplitChain_SwappedSlots(old_node, stem, suffix, value, depth + 1)
           IN IF sub.err # "" THEN sub
              ELSE Done(verkle_add_missing_commitments(InnerNode(new_index :> sub.node)))
       ELSE
           Done(verkle_add_missing_commitments(
                    InnerNode((new_index :> old_node)
                              @@ (old_index :> SuffixNode(stem, suffix, value)))))

\* Mutant: the split loop reads one stem byte further than it has compared
\* (lines 201-202 with len(path) + len(inserted_path) + 1).
RECURSIVE SplitChain_ReadsAhead(_, _, _, _, _)
SplitChain_ReadsAhead(old_node, stem, suffix, value, depth) ==
    IF depth >= Len(old_node.stem) \/ depth >= Len(stem) THEN Raised("IndexError", old_node)
    ELSE
    LET new_index == stem[depth + 1]
        old_index == old_node.stem[depth + 1]
    IN IF old_index = new_index THEN
           LET sub == SplitChain_ReadsAhead(old_node, stem, suffix, value, depth + 2)
           IN IF sub.err # "" THEN sub
              ELSE Done(verkle_add_missing_commitments(InnerNode(new_index :> sub.node)))
       ELSE
           Done(verkle_add_missing_commitments(
                    InnerNode((old_index :> old_node)
                              @@ (new_index :> SuffixNode(stem, suffix, value)))))

\* Mutant: line 207 dropped, the displaced suffix node is not put back.
RECURSIVE SplitChain_DropsOld(_, _, _, _, _)
SplitChain_DropsOld(old_node, stem, suffix, value, depth) ==
    IF depth >= Len(old_node.stem) \/ depth >= Len(stem) THEN Raised("IndexError", old_node)
    ELSE
    LET new_index == stem[depth + 1]
        old_index == old_node.stem[depth + 1]
    IN IF old_index = new_index THEN
           LET sub == SplitChain_DropsOld(old_node, stem, suffix, value, depth + 1)
           IN IF sub.err # "" THEN sub
              ELSE Done(verkle_add_missing_commitments(InnerNode(new_index :> sub.node)))
       ELSE
           Done(verkle_add_missing_commitments(
                    InnerNode(new_index :> SuffixNode(stem, suffix, value))))

\* Lines 190-211: the new inner nodes that replace the slot of old_node, with
\* their commitments; depth is the index of the stem byte that tells the two
\* stems apart or extends the chain.
RECURSIVE SplitChain(_, _, _, _, _)
SplitChain(old_node, stem, suffix, value, depth) ==
    IF depth >= Len(old_node.stem) \/ depth >= Len(stem) THEN Raised("IndexError", old_node)
    ELSE
    LET new_index == stem[depth + 1]
        old_index == old_node.stem[depth + 1]
    IN IF old_index = new_index THEN
           LET sub == SplitChain(old_node, stem, suffix, value, depth + 1)
           IN IF sub.err # "" THEN sub
              ELSE Done(verkle_add_missing_commitments(InnerNode(new_index :> sub.node)))
       ELSE
           Done(verkle_add_missing_commitments(
                    InnerNode((old_index :> old_node)
                              @@ (new_index :> SuffixNode(stem, suffix, value)))))

\* Lines 159-229 from current_node at len(path) = depth: the descent, the
\* insert at its end, and this node's step of the upward pass.
RECURSIVE UpdateDescend(_, _, _, _, _)
UpdateDescend(current_node, stem, suffix, value, depth) ==
    IF depth >= Len(stem) THEN Raised("IndexError", current_node)
    ELSE
    LET index == stem[depth + 1] IN
    IF index \in DOMAIN current_node.slot THEN
        LET child == current_node.slot[index] IN
        IF child.node_type = VERKLE_TRIE_NODE_TYPE_SUFFIX_TREE THEN
            IF child.stem = stem THEN
                LET sub == UpdateInPlace(child, suffix, value)
                IN UpdateParent(current_node, index, sub.node, sub.value_change)
            ELSE
                LET sub == SplitChain(child, stem, suffix, value, depth + 1)
                IN IF sub.err # "" THEN Raised(sub.err, current_node)
                   ELSE UpdateParent(current_node, index, sub.node,
                            (MODULUS + sub.node.commitment_field - child.commitment_field)
                                % MODULUS)
        ELSE
            LET sub == UpdateDescend(child, stem, suffix, value, depth + 1)
            IN IF sub.err # "" THEN Raised(sub.err, current_node)
               ELSE UpdateParent(current_node, index, sub.node, sub.value_change)
    ELSE
        LET fresh == verkle_add_missing_commitments(SuffixNode(stem, suffix, value))
        IN UpdateParent(current_node, index, fresh, fresh.commitment_field)

update_verkle_tree(root_node, key, value) ==
    IF Len(key) < KEY_LENGTH THEN Raised("IndexError", root_node)
    ELSE UpdateDescend(root_node, get_stem(key), get_suffix(key), value, 0)

\* ------------------------------------------------------------ sorted(...)
\* Python's order on bytes objects.
RECURSIVE BytesLess(_, _)
BytesLess(a, b) ==
    IF Len(a) = 0 THEN Len(b) > 0
    ELSE IF Len(b) = 0 THEN FALSE
    ELSE IF a[1] # b[1] THEN a[1] < b[1]
    ELSE BytesLess(Tail(a), Tail(b))

\* Python's order on the tuples (commitment type, prefix or stem) and
\* (commitment type, prefix or stem, subindex).
IndexLess(x, y) ==
    IF x[1] # y[1] THEN x[1] < y[1]
    ELSE IF x[2] # y[2] THEN BytesLess(x[2], y[2])
    ELSE Len(x) = 3 /\ x[3] < y[3]

\* sorted(S) for a set of index tuples and for a set of stems.
RECURSIVE SortedIndices(_)
SortedIndices(S) ==
    IF S = {} THEN << >>
    ELSE LET first == CHOOSE x \in S : \A y \in S \ {x} : IndexLess(x, y)
         IN << first >> \o SortedIndices(S \ {first})

\* Mutant: the stems are put in descending order.
RECURSIVE SortedStems_Descending(_)
SortedStems_Descending(S) ==
    IF S = {} THEN << >>
    ELSE LET first == CHOOSE x \in S : \A y \in S \ {x} : BytesLess(y, x)
         IN << first >> \o SortedStems_Descending(S \ {first})

RECURSIVE SortedStems(_)
SortedStems(S) ==
    IF S = {} THEN << >>
    ELSE LET first == CHOOSE x \in S : \A y \in S \ {x} : BytesLess(x, y)
         IN << first >> \o SortedStems(S \ {first})

\* ------------------------------------------------------------ IPA multiproof
\* ipa_utils.hash_to_field: the Fiat-Shamir hash of the transcript.  Two
\* transcripts hash alike only if they are the same list.
hash_to_field(transcript) == transcript

\* The single-polynomial IPA of ipa_utils: an argument for the batch exists
\* exactly when each C is the commitment of its f and f(z) = y in the field.
IpaOpens(Cs, fs, zs, ys) ==
    \A i \in 1 .. Len(Cs) :
        /\ Cs[i] = pedersen_commit_sparse(fs[i])
        /\ fs[i][zs[i]] % MODULUS = ys[i] % MODULUS

\* make_ipa_multiproof: (D_serialized, ipa_proof), bound to r = H(Cs, zs, ys).
make_ipa_multiproof(Cs, fs, zs, ys) ==
    [r |-> hash_to_field(<< Cs, zs, ys >>), opens |-> IpaOpens(Cs, fs, zs, ys)]

\* check_ipa_multiproof: recomputes r from its own Cs, zs, ys and checks the
\* argument against it.
check_ipa_multiproof(Cs, zs, ys, proof) ==
    /\ proof.r = hash_to_field(<< Cs, zs, ys >>)
    /\ proof.opens

\* -------------------------------------------------------- make_verkle_proof
EmptyCollected ==
    [nodes_by_index |-> << >>, nodes_by_index_and_subindex |-> << >>,
     values |-> << >>, depths_by_stem |-> << >>,
     extension_present_by_stem |-> << >>, other_stems |-> {}]

\* Lines 569-606 for one key: what the key adds to the dicts.
CollectKey(acc, trie, key) ==
    LET found == find_node_with_path(trie, key)
        path == found.path
        final == path[Len(path)]
        inner == {i \in 1 .. Len(path) :
                    path[i][3].node_type = VERKLE_TRIE_NODE_TYPE_INNER}
        inner_by_index ==
            [x \in {<< VERKLE_PROOF_COMMITMENT_TYPE_INNER, path[i][1] >> : i \in inner} |->
                path[CHOOSE i \in inner : path[i][1] = x[2]][3]]
        inner_by_subindex ==
            [x \in {<< VERKLE_PROOF_COMMITMENT_TYPE_INNER, path[i][1], path[i][2] >> :
                        i \in inner} |->
                path[CHOOSE i \in inner : path[i][1] = x[2]][3]]
    IN
    IF final[3].node_type = VERKLE_TRIE_NODE_TYPE_SUFFIX_TREE THEN
        LET stem == final[1]
            suffix == final[2]
            node == final[3]
            suffix_tree_commitment ==
                IF suffix < Half THEN VERKLE_PROOF_COMMITMENT_TYPE_SUFFIX_TREE_C1
                ELSE VERKLE_PROOF_COMMITMENT_TYPE_SUFFIX_TREE_C2
        IN [nodes_by_index |->
                (<< suffix_tree_commitment, stem >> :> node)
                @@ (<< VERKLE_PROOF_COMMITMENT_TYPE_EXTENSION, stem >> :> node)
                @@ inner_by_index @@ acc.nodes_by_index,
            nodes_by_index_and_subindex |->
                (<< suffix_tree_commitment, stem, (suffix * 2 + 1) % WIDTH >> :> node)
                @@ (<< suffix_tree_commitment, stem, (suffix * 2) % WIDTH >> :> node)
                @@ (<< VERKLE_PROOF_COMMITMENT_TYPE_EXTENSION, stem, 2 + suffix \div Half >> :> node)
                @@ (<< VERKLE_PROOF_COMMITMENT_TYPE_EXTENSION, stem, 1 >> :> node)
                @@ (<< VERKLE_PROOF_COMMITMENT_TYPE_EXTENSION, stem, 0 >> :> node)
                @@ inner_by_subindex @@ acc.nodes_by_index_and_subindex,
            values |-> Append(acc.values, found.value),
            depths_by_stem |-> (stem :> Len(path) - 1) @@ acc.depths_by_stem,
            extension_present_by_stem |->
                (stem :> VERKLE_PROOF_EXTENSION_PRESENT_PRESENT)
                @@ acc.extension_present_by_stem,
            other_stems |-> acc.other_stems]
    ELSE
        LET stem == get_stem(key)
            node == final[3]
        IN IF final[2] \in DOMAIN node.slot THEN
               LET other == node.slot[final[2]]
                   other_stem == other.stem
               IN [nodes_by_index |->
                       (<< VERKLE_PROOF_COMMITMENT_TYPE_EXTENSION, other_stem >> :> other)
                       @@ inner_by_index @@ acc.nodes_by_index,
                   nodes_by_index_and_subindex |->
                       (<< VERKLE_PROOF_COMMITMENT_TYPE_EXTENSION, other_stem, 1 >> :> other)
                       @@ (<< VERKLE_PROOF_COMMITMENT_TYPE_EXTENSION, other_stem, 0 >> :> other)
                       @@ inner_by_subindex @@ acc.nodes_by_index_and_subindex,
                   values |-> Append(acc.values, found.value),
                   depths_by_stem |-> (stem :> Len(path)) @@ acc.depths_by_stem,
                   extension_present_by_stem |->
                       (stem :> VERKLE_PROOF_EXTENSION_PRESENT_OTHERSTEM)
                       @@ acc.extension_present_by_stem,
                   other_stems |-> acc.other_stems \cup {other_stem}]
           ELSE
               [nodes_by_index |-> inner_by_index @@ acc.nodes_by_index,
                nodes_by_index_and_subindex |->
                    inner_by_subindex @@ acc.nodes_by_index_and_subindex,
                values |-> Append(acc.values, found.value),
                depths_by_stem |-> (stem :> Len(path)) @@ acc.depths_by_stem,
                extension_present_by_stem |->
                    (stem :> VERKLE_PROOF_EXTENSION_PRESENT_NOEXTENSION)
                    @@ acc.extension_present_by_stem,
                other_stems |-> acc.other_stems]

\* Lines 568-606: the loop over keys.
RECURSIVE CollectKeys(_, _, _)
CollectKeys(acc, trie, keys) ==
    IF Len(keys) = 0 THEN acc
    ELSE CollectKeys(CollectKey(acc, trie, keys[1]), trie, Tail(keys))

\* Lines 626-670: the commitment, the opened value and the polynomial of one
\* entry of nodes_sorted_by_index_and_subindex.
OpeningC(index_and_subindex, node) ==
    LET node_type == index_and_subindex[1] IN
    IF node_type = VERKLE_PROOF_COMMITMENT_TYPE_SUFFIX_TREE_C1 THEN node.C1
    ELSE IF node_type = VERKLE_PROOF_COMMITMENT_TYPE_SUFFIX_TREE_C2 THEN node.C2
    ELSE node.commitment

OpeningY(index_and_subindex, node) ==
    LET node_type == index_and_subindex[1]
        subindex == index_and_subindex[3]
    IN
    IF node_type = VERKLE_PROOF_COMMITMENT_TYPE_INNER THEN
        IF subindex \in DOMAIN node.slot THEN node.slot[subindex].commitment_field ELSE 0
    ELSE IF node_type = VERKLE_PROOF_COMMITMENT_TYPE_EXTENSION THEN
        IF subindex = 0 THEN 1
        ELSE IF subindex = 1 THEN int_from_bytes_little(node.stem)
        ELSE IF subindex = 2 THEN node.C1_field
        ELSE node.C2_field
    ELSE
        LET suffix == IF node_type = VERKLE_PROOF_COMMITMENT_TYPE_SUFFIX_TREE_C1
                      THEN subindex \div 2 ELSE Half + subindex \div 2
        IN IF suffix \notin DOMAIN node.slot THEN 0
           ELSE IF subindex % 2 = 0 THEN value_lower(node.slot[suffix])
           ELSE value_upper(node.slot[suffix])

OpeningF(index_and_subindex, node) ==
    LET node_type == index_and_subindex[1] IN
    IF node_type = VERKLE_PROOF_COMMITMENT_TYPE_INNER THEN
        [i \in Indices |->
            IF i \in DOMAIN node.slot THEN node.slot[i].commitment_field ELSE 0]
    ELSE IF node_type = VERKLE_PROOF_COMMITMENT_TYPE_EXTENSION THEN
        [i \in Indices |->
            IF i = 0 THEN 1
            ELSE IF i = 1 THEN int_from_bytes_little(node.stem)
            ELSE IF i = 2 THEN node.C1_field
            ELSE IF i = 3 THEN node.C2_field
            ELSE 0]
    ELSE
        LET base == IF node_type = VERKLE_PROOF_COMMITMENT_TYPE_SUFFIX_TREE_C1
                    THEN 0 ELSE Half
        IN [z \in Indices |->
               IF base + z \div 2 \in DOMAIN node.slot
               THEN value_part(node.slot[base + z \div 2], z % 2)
               ELSE 0]

\* Mutant: lines 681-684 send the extension commitment for C1 and C2 entries.
WireCommitment_AlwaysExtension(index, node) == serialize(node.commitment)

\* Lines 678-684: the wire form of the commitment of one entry of
\* nodes_sorted_by_index.
WireCommitment(index, node) ==
    IF index[1] = VERKLE_PROOF_COMMITMENT_TYPE_SUFFIX_TREE_C1 THEN serialize(node.C1)
    ELSE IF index[1] = VERKLE_PROOF_COMMITMENT_TYPE_SUFFIX_TREE_C2 THEN serialize(node.C2)
    ELSE serialize(node.commitment)

\* Lines 614-670: the ordered lists handed to the multiproof, one entry per
\* element of nodes_sorted_by_index_and_subindex.
Openings(nodes_by_index_and_subindex) ==
    Let(SortedIndices(DOMAIN nodes_by_index_and_subindex), LAMBDA sorted_sub :
    [index_and_subindex |-> sorted_sub,
     indices |-> [i \in 1 .. Len(sorted_sub) |-> sorted_sub[i][3]],
     ys |-> [i \in 1 .. Len(sorted_sub) |->
                OpeningY(sorted_sub[i], nodes_by_index_and_subindex[sorted_sub[i]])],
     fs |-> [i \in 1 .. Len(sorted_sub) |->
                OpeningF(sorted_sub[i], nodes_by_index_and_subindex[sorted_sub[i]])],
     Cs |-> [i \in 1 .. Len(sorted_sub) |->
                OpeningC(sorted_sub[i], nodes_by_index_and_subindex[sorted_sub[i]])]])

\* Mutant: line 676 with nodes_sorted_by_index[:-1], the last commitment is
\* left out instead of the first.
make_verkle_proof_DropsLast(trie, keys) ==
    Let(CollectKeys(EmptyCollected, trie, keys), LAMBDA c :
    Let(Openings(c.nodes_by_index_and_subindex), LAMBDA opened :
    Let(SortedIndices(DOMAIN c.nodes_by_index), LAMBDA sorted_index :
    LET depths == LET st == SortedStems(DOMAIN c.depths_by_stem)
                  IN [i \in 1 .. Len(st) |-> c.depths_by_stem[st[i]]]
        extension_present ==
            LET st == SortedStems(DOMAIN c.extension_present_by_stem)
            IN [i \in 1 .. Len(st) |-> c.extension_present_by_stem[st[i]]]
        commitments_sorted_by_index_serialized ==
            [i \in 1 .. (IF Len(sorted_index) = 0 THEN 0 ELSE Len(sorted_index) - 1) |->
                WireCommitment(sorted_index[i], c.nodes_by_index[sorted_index[i]])]
        stems_with_extension ==
            {stem \in DOMAIN c.extension_present_by_stem :
                c.extension_present_by_stem[stem] # 0}
        other_stems == SortedStems(c.other_stems \ stems_with_extension)
    IN [depths |-> depths,
        extension_present |-> extension_present,
        commitments_sorted_by_index_serialized |-> commitments_sorted_by_index_serialized,
        other_stems |-> other_stems,
        ipa |-> make_ipa_multiproof(opened.Cs, opened.fs, opened.indices, opened.ys),
        YS_TO_CHECK |-> opened.ys])))

\* make_verkle_proof(trie, keys): the wire proof, with the module global
\* YS_TO_CHECK it leaves behind (line 692).
make_verkle_proof(trie, keys) ==
    Let(CollectKeys(EmptyCollected, trie, keys), LAMBDA c :
    Let(Openings(c.nodes_by_index_and_subindex), LAMBDA opened :
    Let(SortedIndices(DOMAIN c.nodes_by_index), LAMBDA sorted_index :
    LET depths == LET st == SortedStems(DOMAIN c.depths_by_stem)
                  IN [i \in 1 .. Len(st) |-> c.depths_by_stem[st[i]]]
        extension_present ==
            LET st == SortedStems(DOMAIN c.extension_present_by_stem)
            IN [i \in 1 .. Len(st) |-> c.extension_present_by_stem[st[i]]]
        commitments_sorted_by_index_serialized ==
            [i \in 1 .. (IF Len(sorted_index) = 0 THEN 0 ELSE Len(sorted_index) - 1) |->
                WireCommitment(sorted_index[i + 1], c.nodes_by_index[sorted_index[i + 1]])]
        stems_with_extension ==
            {stem \in DOMAIN c.extension_present_by_stem :
                c.extension_present_by_stem[stem] # 0}
        other_stems == SortedStems(c.other_stems \ stems_with_extension)
    IN [depths |-> depths,
        extension_present |-> extension_present,
        commitments_sorted_by_index_serialized |-> commitments_sorted_by_index_serialized,
        other_stems |-> other_stems,
        ipa |-> make_ipa_multiproof(opened.Cs, opened.fs, opened.indices, opened.ys),
        YS_TO_CHECK |-> opened.ys])))

\* ------------------------------------------------------- check_verkle_proof
\* The outcome of a check: "True" or "False" when it returns, else the
\* exception that ends it.
Verdict(outcome) ==
    [verdict |-> outcome, index_and_subindex |-> << >>, Cs |-> << >>, indices |-> << >>,
     ys |-> << >>]

Min3(a, b, c) == Min(a, Min(b, c))

\* Lines 724-740: the loop over zip(stems, depths, extension_present).
RECURSIVE VerifyStems(_, _, _, _)
VerifyStems(acc, stems, proof, i) ==
    IF acc.err # "" \/ i > Min3(Len(stems), Len(proof.depths), Len(proof.extension_present))
    THEN acc
    ELSE
    LET stem == stems[i]
        depth == proof.depths[i]
        extpres == proof.extension_present[i]
        prefix == Slice(stem, 0, depth)
        matches == {j \in 1 .. Len(proof.other_stems) :
                        Slice(proof.other_stems[j], 0, depth) = prefix}
        base == [acc EXCEPT !.depths_by_stem = (stem :> depth) @@ @,
                            !.extension_present_by_stem = (stem :> extpres) @@ @]
        step ==
            IF extpres = VERKLE_PROOF_EXTENSION_PRESENT_PRESENT THEN
                [base EXCEPT !.stems_with_extension = @ \cup {stem},
                             !.stem_by_unique_prefix = (prefix :> stem) @@ @]
            ELSE IF extpres = VERKLE_PROOF_EXTENSION_PRESENT_NOEXTENSION THEN
                [base EXCEPT !.stem_by_unique_prefix = (prefix :> stem) @@ @]
            ELSE IF extpres = VERKLE_PROOF_EXTENSION_PRESENT_OTHERSTEM THEN
                IF Cardinality(matches) > 1 THEN [base EXCEPT !.err = "AssertionError"]
                ELSE IF matches # {} THEN
                    [base EXCEPT !.stem_by_unique_prefix =
                        (prefix :> proof.other_stems[CHOOSE j \in matches : TRUE]) @@ @]
                ELSE base
            ELSE base
    IN VerifyStems(step, stems, proof, i + 1)

\* Lines 744-814 for one (key, value) of zip(keys, values).  result is "" to
\* go on, "False" for return False, else the exception raised.
VerifyKey(acc, first, proof, key, value) ==
    LET stem == get_stem(key) IN
    IF stem \notin DOMAIN first.depths_by_stem THEN [acc EXCEPT !.result = "KeyError"]
    ELSE
    LET depth == first.depths_by_stem[stem]
        extpres == first.extension_present_by_stem[stem]
        inner_indices ==
            {<< VERKLE_PROOF_COMMITMENT_TYPE_INNER, Slice(stem, 0, i) >> : i \in 0 .. depth - 1}
        inner_subindices ==
            {<< VERKLE_PROOF_COMMITMENT_TYPE_INNER, Slice(stem, 0, i), stem[i + 1] >> :
                i \in 0 .. depth - 1}
    IN
    IF depth > Len(stem) THEN [acc EXCEPT !.result = "IndexError"]
    ELSE IF extpres = VERKLE_PROOF_EXTENSION_PRESENT_PRESENT THEN
        LET suffix == get_suffix(key)
            suffix_tree_commitment ==
                IF suffix < Half THEN VERKLE_PROOF_COMMITMENT_TYPE_SUFFIX_TREE_C1
                ELSE VERKLE_PROOF_COMMITMENT_TYPE_SUFFIX_TREE_C2
            lower == IF value # None THEN value_lower(value) ELSE 0
            upper == IF value # None THEN value_upper(value) ELSE 0
        IN [acc EXCEPT
              !.all_indices = @ \cup inner_indices
                  \cup {<< VERKLE_PROOF_COMMITMENT_TYPE_EXTENSION, stem >>,
                        << suffix_tree_commitment, stem >>},
              !.all_indices_and_subindices = @ \cup inner_subindices
                  \cup {<< VERKLE_PROOF_COMMITMENT_TYPE_EXTENSION, stem, 0 >>,
                        << VERKLE_PROOF_COMMITMENT_TYPE_EXTENSION, stem, 1 >>,
                        << VERKLE_PROOF_COMMITMENT_TYPE_EXTENSION, stem, 2 + suffix \div Half >>,
                        << suffix_tree_commitment, stem, (2 * suffix) % WIDTH >>,
                        << suffix_tree_commitment, stem, (2 * suffix + 1) % WIDTH >>},
              !.leaf_values_by_index_and_subindex =
                  (<< suffix_tree_commitment, stem, (2 * suffix + 1) % WIDTH >> :> upper)
                  @@ (<< suffix_tree_commitment, stem, (2 * suffix) % WIDTH >> :> lower)
                  @@ (<< VERKLE_PROOF_COMMITMENT_TYPE_EXTENSION, stem, 1 >>
                          :> int_from_bytes_little(stem))
                  @@ (<< VERKLE_PROOF_COMMITMENT_TYPE_EXTENSION, stem, 0 >> :> 1)
                  @@ @]
    ELSE IF extpres = VERKLE_PROOF_EXTENSION_PRESENT_OTHERSTEM THEN
        LET prefix == Slice(stem, 0, depth)
            queried == {o \in first.stems_with_extension : Slice(o, 0, depth) = prefix}
            listed == {j \in 1 .. Len(proof.other_stems) :
                          Slice(proof.other_stems[j], 0, depth) = prefix}
            other_stem == proof.other_stems[CHOOSE j \in listed : TRUE]
        IN IF value # None THEN [acc EXCEPT !.result = "False"]
           ELSE IF Cardinality(queried) > 1 THEN [acc EXCEPT !.result = "AssertionError"]
           ELSE IF queried # {} THEN
               [acc EXCEPT !.all_indices = @ \cup inner_indices,
                           !.all_indices_and_subindices = @ \cup inner_subindices]
           ELSE IF Cardinality(listed) > 1 THEN [acc EXCEPT !.result = "AssertionError"]
           ELSE IF listed = {} THEN [acc EXCEPT !.result = "TypeError"]
           ELSE
               [acc EXCEPT
                  !.all_indices = @ \cup inner_indices
                      \cup {<< VERKLE_PROOF_COMMITMENT_TYPE_EXTENSION, other_stem >>},
                  !.all_indices_and_subindices = @ \cup inner_subindices
                      \cup {<< VERKLE_PROOF_COMMITMENT_TYPE_EXTENSION, other_stem, 0 >>,
                            << VERKLE_PROOF_COMMITMENT_TYPE_EXTENSION, other_stem, 1 >>},
                  !.leaf_values_by_index_and_subindex =
                      (<< VERKLE_PROOF_COMMITMENT_TYPE_EXTENSION, other_stem, 1 >>
                              :> int_from_bytes_little(other_stem))
                      @@ (<< VERKLE_PROOF_COMMITMENT_TYPE_EXTENSION, other_stem, 0 >> :> 1)
                      @@ @]
    ELSE IF extpres = VERKLE_PROOF_EXTENSION_PRESENT_NOEXTENSION THEN
        IF value # None THEN [acc EXCEPT !.result = "False"]
        ELSE [acc EXCEPT !.all_indices = @ \cup inner_indices,
                         !.all_indices_and_subindices = @ \cup inner_subindices]
    ELSE [acc EXCEPT !.result = "False"]

\* Lines 743-814: the loop over zip(keys, values).
RECURSIVE VerifyKeys(_, _, _, _, _, _)
VerifyKeys(acc, first, proof, keys, claimed, i) ==
    IF acc.result # "" \/ i > Min(Len(keys), Len(claimed)) THEN acc
    ELSE VerifyKeys(VerifyKey(acc, first, proof, keys[i], claimed[i]),
                    first, proof, keys, claimed, i + 1)

\* Lines 829-849: the y of one opening, or the exception of a dict lookup.
\* Result: [err, y].
VerifyY(index_and_subindex, commitments_by_index, first, leaf_values) ==
    LET kind == index_and_subindex[1]
        child_prefix == Append(index_and_subindex[2], index_and_subindex[3])
        child_index == << VERKLE_PROOF_COMMITMENT_TYPE_INNER, child_prefix >>
    IN
    IF kind = VERKLE_PROOF_COMMITMENT_TYPE_INNER THEN
        IF child_index \in DOMAIN commitments_by_index THEN
            [err |-> "", y |-> commitment_to_field(commitments_by_index[child_index])]
        ELSE IF child_prefix \notin DOMAIN first.stem_by_unique_prefix THEN
            [err |-> "KeyError", y |-> 0]
        ELSE
            LET stem == first.stem_by_unique_prefix[child_prefix]
                extension_index == << VERKLE_PROOF_COMMITMENT_TYPE_EXTENSION, stem >>
            IN IF \/ stem \notin DOMAIN first.extension_present_by_stem
                  \/ first.extension_present_by_stem[stem]
                        = VERKLE_PROOF_EXTENSION_PRESENT_PRESENT
               THEN IF extension_index \in DOMAIN commitments_by_index
                    THEN [err |-> "",
                          y |-> commitment_to_field(commitments_by_index[extension_index])]
                    ELSE [err |-> "KeyError", y |-> 0]
               ELSE [err |-> "", y |-> 0]
    ELSE IF kind = VERKLE_PROOF_COMMITMENT_TYPE_EXTENSION THEN
        IF index_and_subindex[3] < 2 THEN
            [err |-> "", y |-> leaf_values[index_and_subindex]]
        ELSE
            LET suffix_tree_commitment ==
                    IF index_and_subindex[3] = 2
                    THEN VERKLE_PROOF_COMMITMENT_TYPE_SUFFIX_TREE_C1
                    ELSE VERKLE_PROOF_COMMITMENT_TYPE_SUFFIX_TREE_C2
                suffix_index == << suffix_tree_commitment, index_and_subindex[2] >>
            IN [err |-> "", y |-> commitment_to_field(commitments_by_index[suffix_index])]
    ELSE [err |-> "", y |-> leaf_values[index_and_subindex]]

\* The module globals check_verkle_proof reads: YS_TO_CHECK, bound by
\* make_verkle_proof (line 692) and by nothing else, and root, bound by the
\* script (line 897).  A global that was never bound has no value and reading
\* it raises NameError.
ModuleGlobals(ys_bound, ys, root_bound) ==
    [YS_TO_CHECK_bound |-> ys_bound, YS_TO_CHECK |-> ys, root_bound |-> root_bound]

\* The globals of the script after its own make_verkle_proof call.
ScriptGlobals(proof) == ModuleGlobals(TRUE, proof.YS_TO_CHECK, TRUE)

\* Lines 859-870: the debug comparison with the module global YS_TO_CHECK,
\* "" when it raises nothing.  For each position where the two lists differ,
\* in order, it rebuilds a key from the opening and looks it up in keys:
\* keys.index raises ValueError when the key is not a queried one (line 868),
\* and find_node_with_path(root, key) reads the global root (line 869).
DebugError(globals, ys, sorted_subindices, keys) ==
    IF ~globals.YS_TO_CHECK_bound THEN "NameError"
    ELSE
    LET KeyOf(i) == Append(sorted_subindices[i][2], sorted_subindices[i][3] \div 2)
        Queried(i) == \E j \in 1 .. Len(keys) : keys[j] = KeyOf(i)
        raising == {i \in 1 .. Min(Len(globals.YS_TO_CHECK), Len(ys)) :
                       /\ globals.YS_TO_CHECK[i] # ys[i]
                       /\ ~Queried(i) \/ ~globals.root_bound}
    IN IF raising = {} THEN ""
       ELSE LET i == CHOOSE i \in raising : \A j \in raising : i <= j
            IN IF Queried(i) THEN "NameError" ELSE "ValueError"

\* check_verkle_proof(trie, keys, values, updated_values, new_verkle_root, proof):
\* trie is the serialized root commitment; updated_values and
\* new_verkle_root are not read by the source.  globals are the module
\* globals at the time of the call.
check_verkle_proof(trie, keys, claimed, proof, globals) ==
    LET commitments_sorted_by_index ==
            << deserialize(trie) >>
            \o [i \in 1 .. Len(proof.commitments_sorted_by_index_serialized) |->
                    deserialize(proof.commitments_sorted_by_index_serialized[i])]
        stems == SortedStems({get_stem(keys[i]) : i \in 1 .. Len(keys)})
    IN
    Let(VerifyStems([depths_by_stem |-> << >>, extension_present_by_stem |-> << >>,
                     stem_by_unique_prefix |-> << >>, stems_with_extension |-> {},
                     err |-> ""],
                    stems, proof, 1), LAMBDA first :
    IF first.err # "" THEN Verdict(first.err)
    ELSE
    Let(VerifyKeys([all_indices |-> {}, all_indices_and_subindices |-> {},
                    leaf_values_by_index_and_subindex |-> << >>, result |-> ""],
                   first, proof, keys, claimed, 1), LAMBDA second :
    IF second.result # "" THEN Verdict(second.result)
    ELSE
    Let(SortedIndices(second.all_indices), LAMBDA all_indices :
    IF Len(all_indices) # Len(commitments_sorted_by_index) THEN Verdict("AssertionError")
    ELSE
    Let(SortedIndices(second.all_indices_and_subindices), LAMBDA all_indices_and_subindices :
    Let([x \in second.all_indices |->
            commitments_sorted_by_index[CHOOSE i \in 1 .. Len(all_indices) :
                                            all_indices[i] = x]], LAMBDA commitments_by_index :
    Let([i \in 1 .. Len(all_indices_and_subindices) |->
            VerifyY(all_indices_and_subindices[i], commitments_by_index, first,
                    second.leaf_values_by_index_and_subindex)], LAMBDA opened :
    LET Cs == [i \in 1 .. Len(all_indices_and_subindices) |->
                  commitments_by_index[SubSeq(all_indices_and_subindices[i], 1, 2)]]
        indices == [i \in 1 .. Len(all_indices_and_subindices) |->
                       all_indices_and_subindices[i][3]]
        ys == [i \in 1 .. Len(all_indices_and_subindices) |-> opened[i].y]
    IN
    IF \E i \in 1 .. Len(opened) : opened[i].err # "" THEN Verdict("KeyError")
    ELSE
    LET rebuilt == [index_and_subindex |-> all_indices_and_subindices,
                    Cs |-> Cs, indices |-> indices, ys |-> ys]
        raised == DebugError(globals, ys, all_indices_and_subindices, keys)
    IN IF raised # "" THEN [verdict |-> raised] @@ rebuilt
       ELSE IF ~check_ipa_multiproof(Cs, indices, ys, proof.ipa)
       THEN [verdict |-> "AssertionError"] @@ rebuilt
       ELSE [verdict |-> "True"] @@ rebuilt))))))

\* ------------------------------------------------------------------ inputs
MaxInserts == 3

ZeroStem == [i \in 1 .. StemLen |-> 0]
UnitStem(j) == [i \in 1 .. StemLen |-> IF i = j THEN 1 ELSE 0]

\* Stems that agree with one another on every prefix length 0 .. StemLen-1.
Stems == {ZeroStem} \cup {UnitStem(j) : j \in 1 .. StemLen}

\* A suffix of the C1 half, the first of the C2 half and the last one.
Suffixes == {0, Half, WIDTH - 1}

Keys == {Append(stem, suffix) : stem \in Stems, suffix \in Suffixes}

\* The all-zero value and a value with both halves non-zero.
Values == {[i \in 1 .. VALUE_LENGTH |-> 0], [i \in 1 .. VALUE_LENGTH |-> 1 + (i % 2)]}

\* ------------------------------------------------------------------- state
VARIABLES
    root,        \* the trie of __main__ (line 897)
    values,      \* the dict of __main__ (line 899): key -> last inserted value
    committed,   \* verkle_add_missing_commitments(root) has run (line 915)
    bulk,        \* the same inserts applied by update_verkle_tree_nocommitmentupdate only
    inserts,     \* number of inserts so far
    bulk_inserts,\* how many of them the bulk build made (before line 915)
    last,        \* the last operation and what it met
    query        \* the last proof made and its check

vars == << root, values, committed, bulk, inserts, bulk_inserts, last, query >>

NoQuery ==
    [phase |-> "none", keys |-> << >>, values |-> << >>, tampered |-> FALSE,
     claimed |-> << >>, verdict |-> ""]

\* Which branch an insert of key takes on the trie: the stem's slot is empty
\* ("fresh"), holds the stem's suffix node ("inplace") or another stem's ("split").
InsertCase(root_node, key) ==
    LET found == find_node_with_path(root_node, key)
        final == found.path[Len(found.path)]
    IN IF final[3].node_type = VERKLE_TRIE_NODE_TYPE_SUFFIX_TREE THEN "inplace"
       ELSE IF final[2] \in DOMAIN final[3].slot THEN "split"
       ELSE "fresh"

Init ==
    /\ root = EmptyRoot
    /\ values = << >>
    /\ committed = FALSE
    /\ bulk = EmptyRoot
    /\ inserts = 0
    /\ bulk_inserts = 0
    /\ last = [op |-> "init"]
    /\ query = NoQuery

\* Lines 901-907: the bulk build, one insert.
InsertNoCommit(key, value) ==
    /\ ~committed
    /\ inserts < MaxInserts
    /\ root' = update_verkle_tree_nocommitmentupdate(root, key, value).node
    /\ bulk' = update_verkle_tree_nocommitmentupdate(bulk, key, value).node
    /\ values' = (key :> value) @@ values
    /\ inserts' = inserts + 1
    /\ bulk_inserts' = bulk_inserts + 1
    /\ last' = [op |-> "nocommit", key |-> key, value |-> value,
                case |-> InsertCase(root, key), before |-> root,
                err |-> update_verkle_tree_nocommitmentupdate(root, key, value).err]
    /\ UNCHANGED << committed, query >>

\* Line 915.
AddMissingCommitments ==
    /\ ~committed
    /\ root' = verkle_add_missing_commitments(root)
    /\ committed' = TRUE
    /\ last' = [op |-> "commit"]
    /\ UNCHANGED << values, bulk, inserts, bulk_inserts, query >>

\* Lines 931-932 and 953-954: an insert that maintains the commitments.
Insert(key, value) ==
    /\ committed
    /\ inserts < MaxInserts
    /\ root' = update_verkle_tree(root, key, value).node
    /\ bulk' = update_verkle_tree_nocommitmentupdate(bulk, key, value).node
    /\ values' = (key :> value) @@ values
    /\ inserts' = inserts + 1
    /\ last' = [op |-> "update", key |-> key, value |-> value,
                case |-> InsertCase(root, key), before |-> root,
                err |-> update_verkle_tree(root, key, value).err]
    /\ UNCHANGED << committed, bulk_inserts, query >>

Next ==
    \/ \E key \in Keys, value \in Values : InsertNoCommit(key, value)
    \/ AddMissingCommitments
    \/ \E key \in Keys, value \in Values : Insert(key, value)

Spec == Init /\ [][Next]_vars

\* ------------------------------------------------------ proving and checking
MaxProofInserts == 2
MaxQuery == 2

\* The insert sequences of at most n (key, value) pairs.
RECURSIVE InsertSequences(_)
InsertSequences(n) ==
    IF n = 0 THEN {<< >>}
    ELSE LET shorter == InsertSequences(n - 1)
         IN shorter \cup {Append(seq, << key, value >>) :
                              seq \in shorter, key \in Keys, value \in Values}

\* The lists of at most n distinct query keys.
RECURSIVE KeyLists(_)
KeyLists(n) ==
    IF n = 0 THEN {<< >>}
    ELSE LET shorter == KeyLists(n - 1)
         IN shorter \cup UNION {{Append(keys, key) :
                                     key \in Keys \ {keys[i] : i \in 1 .. Len(keys)}} :
                                 keys \in shorter}

\* Lines 928-932 repeated over a sequence of (key, value) pairs.
RECURSIVE UpdateAll(_, _)
UpdateAll(root_node, seq) ==
    IF Len(seq) = 0 THEN root_node
    ELSE UpdateAll(update_verkle_tree(root_node, seq[1][1], seq[1][2]).node, Tail(seq))

\* Lines 901-907 repeated over a sequence of (key, value) pairs.
RECURSIVE NocommitAll(_, _)
NocommitAll(root_node, seq) ==
    IF Len(seq) = 0 THEN root_node
    ELSE NocommitAll(update_verkle_tree_nocommitmentupdate(root_node, seq[1][1], seq[1][2]).node,
                     Tail(seq))

\* A trie after line 915 on the empty root and some update_verkle_tree calls.
InitProof ==
    \E seq \in InsertSequences(MaxProofInserts) :
        /\ root = UpdateAll(verkle_add_missing_commitments(EmptyRoot), seq)
        /\ bulk = NocommitAll(EmptyRoot, seq)
        /\ values = check_valid_tree(NocommitAll(EmptyRoot, seq), << >>).values
        /\ committed = TRUE
        /\ inserts = Len(seq)
        /\ bulk_inserts = 0
        /\ last = [op |-> "init"]
        /\ query = NoQuery

\* Mutant: the prover works on the root's commitment in place, without dup().
MakeProof_WritesRoot(keys) ==
    /\ committed
    /\ query.phase = "none"
    /\ query' = [phase |-> "proved", claimed |-> << >>, verdict |-> "",
                 tampered |-> FALSE, keys |-> keys,
                 values |-> [i \in 1 .. Len(keys) |-> Lookup(root, keys[i])],
                 proof |-> make_verkle_proof(root, keys)]
    /\ last' = [op |-> "prove"]
    /\ root' = [root EXCEPT !.commitment = PointAdd(@, G(0))]
    /\ UNCHANGED << values, committed, bulk, inserts, bulk_inserts >>

\* Line 992: proof = make_verkle_proof(root, keys_in_proof).
MakeProof(keys) ==
    /\ committed
    /\ query.phase = "none"
    /\ query' = [phase |-> "proved", claimed |-> << >>, verdict |-> "",
                 tampered |-> FALSE, keys |-> keys,
                 values |-> [i \in 1 .. Len(keys) |-> Lookup(root, keys[i])],
                 proof |-> make_verkle_proof(root, keys)]
    /\ last' = [op |-> "prove"]
    /\ UNCHANGED << root, values, committed, bulk, inserts, bulk_inserts >>

\* The claimed-value lists a caller may present with the proof: the values
\* looked up, or those with one entry replaced.
ClaimedLists(looked_up) ==
    {looked_up} \cup
    {[looked_up EXCEPT ![i] = v] : i \in 1 .. Len(looked_up), v \in Values \cup {None}}

\* Line 1001: check_verkle_proof(root["commitment"].serialize(), keys, values, [], 0, proof).
CheckProof(claimed) ==
    /\ query.phase = "proved"
    /\ query' = [query EXCEPT
                    !.phase = "checked",
                    !.claimed = claimed,
                    !.verdict = check_verkle_proof(serialize(root.commitment), query.keys,
                                    claimed, query.proof, ScriptGlobals(query.proof)).verdict]
    /\ last' = [op |-> "check"]
    /\ UNCHANGED << root, values, committed, bulk, inserts, bulk_inserts >>

NextProof ==
    \/ query.phase = "none" /\ \E keys \in KeyLists(MaxQuery) : MakeProof(keys)
    \/ query.phase = "proved" /\ \E claimed \in ClaimedLists(query.values) : CheckProof(claimed)

SpecProof == InitProof /\ [][NextProof]_vars

\* ------------------------------------------------- proofs altered in flight
MaxTamperInserts == 1

\* The wire proofs a sender can make of an honest one by changing one part:
\* an extension_present entry (to any of 0 .. 3), a depth (to one past the
\* stem), or by dropping the last commitment, the other stems, the last
\* depth, the last extension_present entry, or by replacing the IPA argument.
Tamperings(proof) ==
    {[proof EXCEPT !.extension_present[j] = e] :
        j \in 1 .. Len(proof.extension_present), e \in 0 .. 3}
    \cup {[proof EXCEPT !.depths[j] = StemLen + 1] : j \in 1 .. Len(proof.depths)}
    \cup {[proof EXCEPT !.commitments_sorted_by_index_serialized =
                            SubSeq(@, 1, Len(@) - 1)],
          [proof EXCEPT !.other_stems = << >>],
          [proof EXCEPT !.depths = SubSeq(@, 1, Len(@) - 1)],
          [proof EXCEPT !.extension_present = SubSeq(@, 1, Len(@) - 1)],
          [proof EXCEPT !.ipa.opens = FALSE]}

InitTamper ==
    \E seq \in InsertSequences(MaxTamperInserts) :
        /\ root = UpdateAll(verkle_add_missing_commitments(EmptyRoot), seq)
        /\ bulk = NocommitAll(EmptyRoot, seq)
        /\ values = check_valid_tree(NocommitAll(EmptyRoot, seq), << >>).values
        /\ committed = TRUE
        /\ inserts = Len(seq)
        /\ bulk_inserts = 0
        /\ last = [op |-> "init"]
        /\ query = NoQuery

\* The proof passed to check_verkle_proof (line 697) is not the one
\* make_verkle_proof returned.
Tamper ==
    /\ query.phase = "proved"
    /\ ~query.tampered
    /\ \E proof \in Tamperings(query.proof) \ {query.proof} :
           query' = [query EXCEPT !.proof = proof, !.tampered = TRUE]
    /\ last' = [op |-> "tamper"]
    /\ UNCHANGED << root, values, committed, bulk, inserts, bulk_inserts >>

NextTamper ==
    \/ query.phase = "none" /\ \E keys \in KeyLists(MaxQuery) : MakeProof(keys)
    \/ Tamper
    \/ query.phase = "proved" /\ \E claimed \in ClaimedLists(query.values) : CheckProof(claimed)

SpecTamper == InitTamper /\ [][NextTamper]_vars

\* ------------------------------------------------------- malformed inputs
MaxMalformedUpdates == 1

\* Keys one byte short and one byte long, values one byte short and one long.
MalformedKeys == {ZeroStem, ZeroStem \o << 0, 0 >>, UnitStem(1) \o << 0, 0 >>}
MalformedValues ==
    {[i \in 1 .. VALUE_LENGTH - 1 |-> 1], [i \in 1 .. VALUE_LENGTH + 1 |-> 1]}

Malformed(key, value) == Len(key) # KEY_LENGTH \/ Len(value) # VALUE_LENGTH

HasDuplicates(keys) == \E i, j \in 1 .. Len(keys) : i # j /\ keys[i] = keys[j]

\* Key lists that name some key twice, next to itself or around another key.
DuplicateKeyLists ==
    {<< key, key >> : key \in Keys}
    \cup {<< key, Append(UnitStem(1), 0), key >> : key \in Keys}

\* update_verkle_tree (line 149) called with a key or a value of the wrong
\* length.  After an exception the caller holds the trie as the call left it.
UpdateMalformed(key, value) ==
    /\ committed
    /\ query.phase = "none"
    /\ inserts < MaxTamperInserts + MaxMalformedUpdates
    /\ Malformed(key, value)
    /\ root' = update_verkle_tree(root, key, value).node
    /\ inserts' = inserts + 1
    /\ last' = [op |-> "update", key |-> key, value |-> value, case |-> "",
                before |-> root, err |-> update_verkle_tree(root, key, value).err]
    /\ UNCHANGED << values, committed, bulk, bulk_inserts, query >>

NextMalformed ==
    \/ \E key \in Keys \cup MalformedKeys, value \in Values \cup MalformedValues :
           UpdateMalformed(key, value)
    \/ query.phase = "none" /\ \E keys \in DuplicateKeyLists : MakeProof(keys)
    \/ query.phase = "proved" /\ \E claimed \in ClaimedLists(query.values) : CheckProof(claimed)

SpecMalformed == InitTamper /\ [][NextMalformed]_vars

\* ------------------------------------------------ the verifier's process
MaxOtherQuery == 1

\* The module globals a process may hold when it calls check_verkle_proof:
\* YS_TO_CHECK never bound, or left behind by its last make_verkle_proof call
\* (for any key list), and root bound by the script or not.
ProcessGlobals ==
    {ModuleGlobals(FALSE, << >>, root_bound) : root_bound \in BOOLEAN}
    \cup {ModuleGlobals(TRUE, make_verkle_proof(root, keys).YS_TO_CHECK, root_bound) :
              keys \in KeyLists(MaxOtherQuery), root_bound \in BOOLEAN}

\* Two runs of check_verkle_proof (line 697) on the same root, keys, values
\* and proof: one in the process that made the proof, one in a process with
\* the given globals.
CheckProofIn(claimed, globals) ==
    /\ query.phase = "proved"
    /\ query' = [phase |-> "compared", keys |-> query.keys, values |-> query.values,
                 tampered |-> FALSE, claimed |-> claimed, proof |-> query.proof,
                 verdict |-> check_verkle_proof(serialize(root.commitment), query.keys,
                                 claimed, query.proof, ScriptGlobals(query.proof)).verdict,
                 globals |-> globals,
                 verdict_in |-> check_verkle_proof(serialize(root.commitment), query.keys,
                                    claimed, query.proof, globals).verdict]
    /\ last' = [op |-> "check"]
    /\ UNCHANGED << root, values, committed, bulk, inserts, bulk_inserts >>

NextGlobals ==
    \/ query.phase = "none" /\ \E keys \in KeyLists(MaxQuery) : MakeProof(keys)
    \/ query.phase = "proved" /\
           \E claimed \in ClaimedLists(query.values), globals \in ProcessGlobals :
               CheckProofIn(claimed, globals)

SpecGlobals == InitTamper /\ [][NextGlobals]_vars

\* ----------------------------------- a commitment pass on a committed trie
MaxStaleInserts == 2

\* update_verkle_tree_nocommitmentupdate (line 106) called on a trie that
\* carries commitments: the nodes it creates carry none, the nodes it passes
\* keep the ones they had.
StaleInsert(key, value) ==
    /\ last.op # "recommit"
    /\ bulk_inserts < MaxStaleInserts
    /\ root' = update_verkle_tree_nocommitmentupdate(root, key, value).node
    /\ bulk' = update_verkle_tree_nocommitmentupdate(bulk, key, value).node
    /\ values' = (key :> value) @@ values
    /\ inserts' = inserts + 1
    /\ bulk_inserts' = bulk_inserts + 1
    /\ last' = [op |-> "nocommit", key |-> key, value |-> value,
                case |-> InsertCase(root, key), before |-> root,
                err |-> update_verkle_tree_nocommitmentupdate(root, key, value).err]
    /\ UNCHANGED << committed, query >>

\* verkle_add_missing_commitments (line 232) called on the root.
Recommit ==
    /\ last.op # "recommit"
    /\ root' = verkle_add_missing_commitments(root)
    /\ last' = [op |-> "recommit", before |-> root]
    /\ UNCHANGED << values, committed, bulk, inserts, bulk_inserts, query >>

NextRecommit ==
    \/ \E key \in Keys, value \in Values : StaleInsert(key, value)
    \/ Recommit

SpecRecommit == InitTamper /\ [][NextRecommit]_vars

\* ------------------------------------------------------------------ claims
\* Every suffix node of the subtree with the child indices that lead to it:
\* the set of <<prefix, node>>.
RECURSIVE SuffixNodesOf(_, _)
SuffixNodesOf(node, prefix) ==
    IF node.node_type = VERKLE_TRIE_NODE_TYPE_INNER
    THEN UNION {SuffixNodesOf(node.slot[i], Append(prefix, i)) : i \in DOMAIN node.slot}
    ELSE {<< prefix, node >>}

\* C1: once the root carries its commitment, after every update_verkle_tree
\* the whole trie passes check_valid_tree: every inner commitment is the
\* Pedersen commitment of its children's fields, every suffix node's C1, C2
\* and commitment are the ones recomputed from its values and stem, and every
\* field is the field image of its commitment.
C1_TreeValid == committed => check_valid_tree(root, << >>).ok

\* C1 witness: update_verkle_tree has split a stem collision through a chain
\* of two new inner nodes on a trie built from the committed empty root, after
\* an in-place update.
C1_Witness ==
    /\ committed /\ bulk_inserts = 0
    /\ last.op = "update" /\ last.case = "split"
    /\ \E p \in SuffixNodesOf(root, << >>) : Len(p[1]) = StemLen
    /\ \E p \in SuffixNodesOf(root, << >>) : Cardinality(DOMAIN p[2].slot) = 2
    /\ check_valid_tree(root, << >>).ok

\* C2: the trie maintained by update_verkle_tree is, node for node (shape,
\* values, every commitment and field), the trie that the same inserts give
\* through update_verkle_tree_nocommitmentupdate followed by one
\* verkle_add_missing_commitments.
C2_SameAsBulk == committed => root = verkle_add_missing_commitments(bulk)

\* C2 witness: every insert went through update_verkle_tree from the
\* committed empty root, the last one split a collision, and both tries hold
\* the same root commitment.
C2_Witness ==
    /\ committed /\ bulk_inserts = 0 /\ inserts = MaxInserts
    /\ last.op = "update" /\ last.case = "split"
    /\ root.commitment = verkle_add_missing_commitments(bulk).commitment

\* C3: the lookup returns the value of the latest insert of every inserted
\* key and None for every other key.
C3_LookupLatest ==
    \A key \in Keys :
        Lookup(root, key) = IF key \in DOMAIN values THEN values[key] ELSE None

\* C3 witness: a key was overwritten with another value, a key is absent
\* under a present stem, and the descent of an absent key ends on a suffix
\* node of another stem.
C3_Witness ==
    /\ last.op \in {"update", "nocommit"} /\ last.case = "inplace"
    /\ Lookup(last.before, last.key) \notin {None, last.value}
    /\ Lookup(root, last.key) = last.value
    /\ \E key \in Keys \ DOMAIN values :
          LET found == find_node_with_path(root, key)
          IN found.path[Len(found.path)][3].node_type = VERKLE_TRIE_NODE_TYPE_SUFFIX_TREE
    /\ \E key \in Keys \ DOMAIN values : InsertCase(root, key) = "split"

\* C4: the stem of every suffix node begins with the child indices that lead
\* to it, no two suffix nodes carry the same stem, and every present key is
\* stored in exactly one suffix node, the one of its stem.
C4_UniqueLeaves ==
    LET nodes == SuffixNodesOf(root, << >>) IN
    /\ \A p \in nodes : Slice(p[2].stem, 0, Len(p[1])) = p[1]
    /\ \A p, q \in nodes : p[2].stem = q[2].stem => p = q
    /\ \A key \in DOMAIN values :
          LET holders == {p \in nodes : \E i \in DOMAIN p[2].slot : Append(p[2].stem, i) = key}
          IN /\ Cardinality(holders) = 1
             /\ \A p \in holders : p[2].stem = get_stem(key)

\* C4 witness: after a split through a chain of inner nodes the trie holds
\* one suffix node per inserted stem.
C4_Witness ==
    /\ last.op \in {"update", "nocommit"} /\ last.case = "split"
    /\ Cardinality(SuffixNodesOf(root, << >>)) = MaxInserts
    /\ \E p \in SuffixNodesOf(root, << >>) : Len(p[1]) = StemLen

\* C5: whenever update_verkle_tree(k, v2) has run on a trie, the trie it left
\* (every node, every commitment and field) is the one that
\* update_verkle_tree(k, v1) followed by update_verkle_tree(k, v2) leaves on
\* the same starting trie, for every v1, v1 = v2 included.
C5_Overwrite ==
    last.op = "update" =>
        \A v1 \in Values :
            update_verkle_tree(update_verkle_tree(last.before, last.key, v1).node,
                               last.key, last.value).node = root

\* C5 witness: update_verkle_tree has overwritten a present key with a
\* different value.
C5_Witness ==
    /\ last.op = "update" /\ last.case = "inplace"
    /\ Lookup(last.before, last.key) \notin {None, last.value}
    /\ Lookup(root, last.key) = last.value
    /\ root.commitment # last.before.commitment

\* The stems of the queried keys in the verifier's order (line 720), and the
\* extension_present entry the zip of line 724 pairs with the stem of a key.
QueriedStems == SortedStems({get_stem(query.keys[i]) : i \in 1 .. Len(query.keys)})

HasExtensionEntry(key) ==
    \E j \in 1 .. Min3(Len(QueriedStems), Len(query.proof.depths),
                       Len(query.proof.extension_present)) :
        QueriedStems[j] = get_stem(key)

ExtensionEntry(key) ==
    query.proof.extension_present[CHOOSE j \in 1 .. Len(QueriedStems) :
                                      QueriedStems[j] = get_stem(key)]

\* How a key is absent from the trie: its path ends at an empty slot
\* ("empty"), at another stem's suffix node ("other") or at its own stem's
\* suffix node without the suffix ("suffix"); "present" otherwise.
AbsenceOf(key) ==
    LET found == find_node_with_path(root, key)
        final == found.path[Len(found.path)]
    IN IF found.value # None THEN "present"
       ELSE IF final[3].node_type = VERKLE_TRIE_NODE_TYPE_INNER THEN
            IF final[2] \in DOMAIN final[3].slot THEN "other" ELSE "empty"
       ELSE "suffix"

\* C6: for every trie and every key list (the empty one included), the proof
\* make_verkle_proof returns, presented unchanged with the values
\* find_node_with_path returns, makes check_verkle_proof return True.
C6_Complete ==
    (query.phase = "checked" /\ ~query.tampered /\ query.claimed = query.values)
        => query.verdict = "True"

\* C7: the proof for one absent key verifies with the claimed value None, and
\* is not accepted with any claimed value of VALUE_LENGTH bytes.
C7_NonMembership ==
    (/\ query.phase = "checked"
     /\ ~query.tampered
     /\ Len(query.keys) = 1
     /\ AbsenceOf(query.keys[1]) # "present")
        => IF query.claimed[1] = None THEN query.verdict = "True"
           ELSE query.verdict # "True"

\* A key absent under a present stem, claimed with the all-zero value, is
\* not accepted.
C7_Witness ==
    /\ query.phase = "checked"
    /\ ~query.tampered
    /\ Len(query.keys) = 1
    /\ AbsenceOf(query.keys[1]) = "suffix"
    /\ query.claimed[1] = [i \in 1 .. VALUE_LENGTH |-> 0]
    /\ query.verdict # "True"

\* C8: check_verkle_proof always ends by returning True or False; no input
\* makes it raise.
C8_NeverRaises ==
    query.phase = "checked" => query.verdict \in {"True", "False"}

\* C9: check_verkle_proof returns False when some queried key has a claimed
\* value other than None while its stem's extension_present entry is
\* NOEXTENSION or OTHERSTEM, and when some queried stem's entry is outside
\* {0, 1, 2}, whatever the rest of the proof is.
C9_RejectsBadExtension ==
    (/\ query.phase = "checked"
     /\ \E i \in 1 .. Min(Len(query.keys), Len(query.claimed)) :
            /\ HasExtensionEntry(query.keys[i])
            /\ \/ /\ query.claimed[i] # None
                  /\ ExtensionEntry(query.keys[i]) \in
                        {VERKLE_PROOF_EXTENSION_PRESENT_NOEXTENSION,
                         VERKLE_PROOF_EXTENSION_PRESENT_OTHERSTEM}
               \/ ExtensionEntry(query.keys[i]) \notin
                        {VERKLE_PROOF_EXTENSION_PRESENT_NOEXTENSION,
                         VERKLE_PROOF_EXTENSION_PRESENT_PRESENT,
                         VERKLE_PROOF_EXTENSION_PRESENT_OTHERSTEM})
        => query.verdict = "False"

\* C10: update_verkle_tree with a key or a value of the wrong length ends in
\* an error and leaves the trie as it was; make_verkle_proof and
\* check_verkle_proof with a key list naming a key twice end in an error
\* instead of completing.
C10_FailFast ==
    /\ (last.op = "update" /\ Malformed(last.key, last.value))
            => (last.err # "" /\ root = last.before)
    /\ ~(query.phase = "proved" /\ HasDuplicates(query.keys))
    /\ (query.phase = "checked" /\ HasDuplicates(query.keys))
            => query.verdict \notin {"True", "False"}

\* ------------------------------------------------- the colliding-stem scenarios
\* key_a is the all-zero key; KeyAt(k) has a stem that agrees with stem(key_a)
\* on exactly its first k bytes and differs at byte k; key_e is the one that
\* differs at the last stem byte only.
key_a == Append(ZeroStem, 0)
KeyAt(k) == Append(UnitStem(k + 1), 0)
key_e == KeyAt(StemLen - 1)

\* The trie holds only key_a, and the proof made is the one for [key_e].
OnlyKeyAQueriedKeyE ==
    /\ query.phase = "proved"
    /\ DOMAIN values = {key_a}
    /\ query.keys = << key_e >>

\* C11 (as stated): with a trie holding only key_a, the proof for key_e
\* reports depth StemLen (31 in the source's sizes), OTHERSTEM, and
\* stem(key_a) among other_stems.
C11_OtherStemAtFullDepth ==
    OnlyKeyAQueriedKeyE =>
        /\ query.proof.depths = << StemLen >>
        /\ query.proof.extension_present = << VERKLE_PROOF_EXTENSION_PRESENT_OTHERSTEM >>
        /\ \E j \in 1 .. Len(query.proof.other_stems) :
               query.proof.other_stems[j] = get_stem(key_a)

\* C11 (amended): with a trie holding only key_a, the suffix node of key_a is
\* a child of the root, so the proof for key_e reports depth 1, OTHERSTEM,
\* and other_stems = [stem(key_a)].
C11_OtherStemAtRoot ==
    OnlyKeyAQueriedKeyE =>
        /\ query.proof.depths = << 1 >>
        /\ query.proof.extension_present = << VERKLE_PROOF_EXTENSION_PRESENT_OTHERSTEM >>
        /\ query.proof.other_stems = << get_stem(key_a) >>

C11_Witness ==
    /\ OnlyKeyAQueriedKeyE
    /\ query.proof.depths = << 1 >>
    /\ query.proof.other_stems = << get_stem(key_a) >>

\* Every inner node of the subtree with the child indices that lead to it:
\* the set of <<prefix, node>>.
RECURSIVE InnerNodesOf(_, _)
InnerNodesOf(node, prefix) ==
    IF node.node_type = VERKLE_TRIE_NODE_TYPE_INNER
    THEN {<< prefix, node >>}
         \cup UNION {InnerNodesOf(node.slot[i], Append(prefix, i)) : i \in DOMAIN node.slot}
    ELSE {}

\* The number of leading bytes on which two different stems agree.
CommonPrefixLen(s, t) ==
    CHOOSE k \in 0 .. StemLen - 1 : Slice(s, 0, k) = Slice(t, 0, k) /\ s[k + 1] # t[k + 1]

StemsOf(keys) == {get_stem(key) : key \in keys}

\* Two keys with different stems were inserted into the empty trie.
TwoStemsInserted == inserts = 2 /\ Cardinality(StemsOf(DOMAIN values)) = 2

\* The proof made is the one for the two inserted keys.
BothKeysProved ==
    /\ query.phase = "proved"
    /\ Len(query.keys) = 2
    /\ {query.keys[1], query.keys[2]} = DOMAIN values

\* C12: after two keys whose stems agree on exactly their first k bytes are
\* inserted into an empty trie, the trie has exactly k+1 inner nodes forming
\* one chain along the common prefix and 2 suffix nodes, both children of the
\* deepest inner node in the slots given by byte k of each stem; the proof
\* for both keys has depths [k+1, k+1] and both entries PRESENT.
C12_SplitChainShape ==
    TwoStemsInserted =>
        LET s == CHOOSE s \in StemsOf(DOMAIN values) : TRUE
            t == CHOOSE t \in StemsOf(DOMAIN values) : t # s
            k == CommonPrefixLen(s, t)
            inner == InnerNodesOf(root, << >>)
            leaves == SuffixNodesOf(root, << >>)
        IN /\ Cardinality(inner) = k + 1
           /\ {p[1] : p \in inner} = {Slice(s, 0, i) : i \in 0 .. k}
           /\ \A p \in inner :
                  DOMAIN p[2].slot = IF Len(p[1]) < k THEN {s[Len(p[1]) + 1]}
                                     ELSE {s[k + 1], t[k + 1]}
           /\ Cardinality(leaves) = 2
           /\ {p[2].stem : p \in leaves} = {s, t}
           /\ \A p \in leaves : p[1] = Slice(p[2].stem, 0, k + 1)
           /\ BothKeysProved =>
                  /\ query.proof.depths = << k + 1, k + 1 >>
                  /\ query.proof.extension_present =
                         << VERKLE_PROOF_EXTENSION_PRESENT_PRESENT,
                            VERKLE_PROOF_EXTENSION_PRESENT_PRESENT >>

\* C12 witness: the two stems differ at their last byte only, the chain has
\* StemLen inner nodes and the proof for both keys reports depths
\* [StemLen, StemLen].
C12_Witness ==
    /\ TwoStemsInserted
    /\ BothKeysProved
    /\ StemsOf(DOMAIN values) = {ZeroStem, UnitStem(StemLen)}
    /\ Cardinality(InnerNodesOf(root, << >>)) = StemLen
    /\ query.proof.depths = << StemLen, StemLen >>

\* Where the descent along a stem ends, found by walking the children from an
\* inner node that lies `traversed` levels below the root: the kind of end
\* and the number of inner nodes traversed.
RECURSIVE StemDescent(_, _, _)
StemDescent(node, stem, traversed) ==
    IF stem[traversed + 1] \notin DOMAIN node.slot
    THEN [end |-> VERKLE_PROOF_EXTENSION_PRESENT_NOEXTENSION, depth |-> traversed + 1]
    ELSE LET child == node.slot[stem[traversed + 1]] IN
         IF child.node_type = VERKLE_TRIE_NODE_TYPE_INNER
         THEN StemDescent(child, stem, traversed + 1)
         ELSE [end |-> IF child.stem = stem THEN VERKLE_PROOF_EXTENSION_PRESENT_PRESENT
                       ELSE VERKLE_PROOF_EXTENSION_PRESENT_OTHERSTEM,
               depth |-> traversed + 1]

\* The position of a stem among the queried stems in ascending order.
StemRank(stem, stems) == 1 + Cardinality({t \in stems : BytesLess(t, stem)})

\* C13: depths and extension_present have exactly one entry per distinct
\* queried stem, in ascending stem order; the entry of a stem is PRESENT
\* exactly when the trie holds a suffix node with that stem, OTHERSTEM exactly
\* when the descent ends on a suffix node of another stem, NOEXTENSION exactly
\* when it ends at an empty slot of an inner node; the depth is the number of
\* inner nodes traversed and lies within 1 .. StemLen.
C13_DepthsAndExtensions ==
    query.phase = "proved" =>
        LET stems == StemsOf({query.keys[i] : i \in 1 .. Len(query.keys)})
            held == {p[2].stem : p \in SuffixNodesOf(root, << >>)}
        IN /\ Len(query.proof.depths) = Cardinality(stems)
           /\ Len(query.proof.extension_present) = Cardinality(stems)
           /\ \A stem \in stems :
                  LET j == StemRank(stem, stems)
                      d == StemDescent(root, stem, 0)
                  IN /\ query.proof.extension_present[j] = d.end
                     /\ (d.end = VERKLE_PROOF_EXTENSION_PRESENT_PRESENT) <=> (stem \in held)
                     /\ query.proof.depths[j] = d.depth
                     /\ query.proof.depths[j] \in 1 .. StemLen

\* C13 witness: two stems were queried in descending order, one ending on
\* another stem's suffix node below the root and one at an empty slot.
C13_Witness ==
    /\ query.phase = "proved"
    /\ Len(query.keys) = 2
    /\ BytesLess(get_stem(query.keys[2]), get_stem(query.keys[1]))
    /\ query.proof.extension_present =
           << VERKLE_PROOF_EXTENSION_PRESENT_OTHERSTEM,
              VERKLE_PROOF_EXTENSION_PRESENT_NOEXTENSION >>
    /\ query.proof.depths[1] > 1

C15_PureVerification ==
    query.phase = "compared" => query.verdict_in = query.verdict

\* The keys the lookup finds, the stems that have a suffix node and the byte
\* prefixes that have an inner node.
PresentKeys(trie) == {key \in Keys : Lookup(trie, key) # None}
PresentStems(trie) == {p[2].stem : p \in SuffixNodesOf(trie, << >>)}
InnerPrefixes(trie) == {p[1] : p \in InnerNodesOf(trie, << >>)}

\* C16: nodes and values are never deleted: in every step a present key
\* stays present, a stem that has a suffix node keeps one, a prefix that has
\* an inner node keeps one, and an insert leaves every suffix node of another
\* stem as it was (values and commitments), at the same place or, after a
\* split, deeper.
C16_NeverDeleted ==
    [][/\ PresentKeys(root) \subseteq PresentKeys(root')
       /\ PresentStems(root) \subseteq PresentStems(root')
       /\ InnerPrefixes(root) \subseteq InnerPrefixes(root')
       /\ last'.op \in {"update", "nocommit"} =>
              \A p \in SuffixNodesOf(root, << >>) :
                  p[2].stem # get_stem(last'.key) =>
                      \E q \in SuffixNodesOf(root', << >>) :
                          /\ q[2] = p[2]
                          /\ Len(q[1]) >= Len(p[1])
                          /\ Slice(q[1], 0, Len(p[1])) = p[1]]_vars

\* C16 witness: an update_verkle_tree split has moved a committed suffix node
\* two levels deeper, unchanged, on a trie that held another stem as well.
C16_Witness ==
    /\ last.op = "update" /\ last.case = "split"
    /\ Cardinality(PresentStems(last.before)) = 2
    /\ PresentKeys(last.before) \subseteq PresentKeys(root)
    /\ \E p \in SuffixNodesOf(last.before, << >>), q \in SuffixNodesOf(root, << >>) :
           q[2] = p[2] /\ Len(q[1]) = Len(p[1]) + 2

\* C17: every update_verkle_tree and update_verkle_tree_nocommitmentupdate
\* call with a key of KEY_LENGTH bytes ends without an error; the descent
\* passes at most StemLen inner nodes and the split ends at a stem byte of
\* index at most StemLen - 1, so every inner node lies under a prefix shorter
\* than a stem and every suffix node under a prefix no longer than its stem.
C17_InsertTerminates ==
    /\ last.op \in {"update", "nocommit"} => last.err = ""
    /\ \A p \in InnerNodesOf(root, << >>) : Len(p[1]) <= StemLen - 1
    /\ \A p \in SuffixNodesOf(root, << >>) : Len(p[1]) \in 1 .. StemLen

\* C17 witness: a split between two stems that differ at their last byte
\* only has ended without error, the suffix nodes StemLen levels down.
C17_Witness ==
    /\ last.op = "update" /\ last.case = "split" /\ last.err = ""
    /\ \E p \in SuffixNodesOf(root, << >>) :
           Len(p[1]) = StemLen /\ p[2].stem = get_stem(last.key)
    /\ Cardinality(InnerNodesOf(root, << >>)) >= StemLen

\* The lists make_verkle_proof hands to the multiproof for the queried keys,
\* and the lists check_verkle_proof rebuilds from the wire proof and the
\* looked-up values.
ProverLists == Openings(CollectKeys(EmptyCollected, root, query.keys).nodes_by_index_and_subindex)
VerifierLists ==
    check_verkle_proof(serialize(root.commitment), query.keys, query.values, query.proof,
                       ScriptGlobals(query.proof))

\* C18: for every list of distinct query keys the verifier's rebuilt opening
\* lists are, element by element, the prover's: the same (commitment kind,
\* node identifier, z) tuples in the same order, the same commitment and the
\* same y at each position; for a non-empty key list they are rebuilt in full.
C18_SameOpenings ==
    query.phase = "proved" =>
        Let(ProverLists, LAMBDA prover :
        Let(VerifierLists, LAMBDA verifier :
            /\ verifier.index_and_subindex = prover.index_and_subindex
            /\ verifier.indices = prover.indices
            /\ verifier.Cs = prover.Cs
            /\ verifier.ys = prover.ys
            /\ Len(query.keys) > 0 => Len(verifier.ys) > 0))

\* C18 witness: the lists hold inner, extension and suffix openings for a
\* present key and the extension opening of another stem's suffix node below
\* the root.
C18_Witness ==
    /\ query.phase = "proved"
    /\ Len(query.keys) = 2
    /\ \E i, j \in 1 .. 2 : /\ AbsenceOf(query.keys[i]) = "present"
                            /\ AbsenceOf(query.keys[j]) = "other"
    /\ Cardinality(InnerNodesOf(root, << >>)) = 1
    /\ VerifierLists.ys = ProverLists.ys
    /\ Len(VerifierLists.ys) >= 8

\* The (commitment kind, node identifier) pairs the builder collects for the
\* queried keys, and the commitment of the trie that a pair names.
CollectedPairs == DOMAIN CollectKeys(EmptyCollected, root, query.keys).nodes_by_index

CommitmentOf(pair) ==
    IF pair[1] = VERKLE_PROOF_COMMITMENT_TYPE_INNER
    THEN LET p == CHOOSE p \in InnerNodesOf(root, << >>) : p[1] = pair[2]
         IN p[2].commitment
    ELSE LET p == CHOOSE p \in SuffixNodesOf(root, << >>) : p[2].stem = pair[2]
         IN IF pair[1] = VERKLE_PROOF_COMMITMENT_TYPE_SUFFIX_TREE_C1 THEN p[2].C1
            ELSE IF pair[1] = VERKLE_PROOF_COMMITMENT_TYPE_SUFFIX_TREE_C2 THEN p[2].C2
            ELSE p[2].commitment

RootPair == << VERKLE_PROOF_COMMITMENT_TYPE_INNER, << >> >>

\* C19: for a non-empty key list commitments_sorted_by_index holds exactly
\* one serialized commitment per collected (kind, identifier) pair other than
\* the root's, in ascending pair order: the pair left out is the root's, the
\* smallest one, and the verifier's count of distinct pairs is the list
\* length plus one.
C19_RootOmitted ==
    (query.phase = "proved" /\ Len(query.keys) > 0) =>
        Let(CollectedPairs, LAMBDA pairs :
        Let(VerifierLists.index_and_subindex, LAMBDA rebuilt :
        LET wire == query.proof.commitments_sorted_by_index_serialized
            Rank(pair) == Cardinality({q \in pairs : IndexLess(q, pair)})
        IN /\ RootPair \in pairs
           /\ Rank(RootPair) = 0
           /\ Len(wire) = Cardinality(pairs) - 1
           /\ \A pair \in pairs \ {RootPair} :
                  wire[Rank(pair)] = serialize(CommitmentOf(pair))
           /\ Cardinality({SubSeq(rebuilt[i], 1, 2) : i \in 1 .. Len(rebuilt)})
                  = Len(wire) + 1))

\* C19 witness: the proof for two keys carries inner, extension, C1 and C2
\* commitments of a split chain, and not the root's.
C19_Witness ==
    /\ query.phase = "proved"
    /\ Len(query.keys) = 2
    /\ Cardinality(InnerNodesOf(root, << >>)) = StemLen
    /\ \A kind \in {VERKLE_PROOF_COMMITMENT_TYPE_INNER,
                    VERKLE_PROOF_COMMITMENT_TYPE_EXTENSION,
                    VERKLE_PROOF_COMMITMENT_TYPE_SUFFIX_TREE_C1,
                    VERKLE_PROOF_COMMITMENT_TYPE_SUFFIX_TREE_C2} :
           \E pair \in CollectedPairs \ {RootPair} : pair[1] = kind
    /\ Len(query.proof.commitments_sorted_by_index_serialized) = Cardinality(CollectedPairs) - 1

\* Whether the byte sequence prefix begins the stem.
IsPrefixOf(prefix, stem) == Len(prefix) <= Len(stem) /\ Slice(stem, 0, Len(prefix)) = prefix

\* C20: update_verkle_tree(key, value) changes only what lies on the key's
\* path.  Every other key keeps its lookup result; every suffix node of
\* another stem is kept with all its fields; the suffix node of the key's
\* stem keeps its stem and its other values; every inner node off the path
\* is kept as it was under its prefix, and an inner node on the path keeps
\* every child other than the one the path follows.
C20_UpdateFrame ==
    last.op = "update" =>
        LET stem == get_stem(last.key)
            suffix == get_suffix(last.key)
        IN /\ \A key \in Keys \ {last.key} : Lookup(root, key) = Lookup(last.before, key)
           /\ Lookup(root, last.key) = last.value
           /\ \A p \in SuffixNodesOf(last.before, << >>) :
                  IF p[2].stem # stem
                  THEN \E q \in SuffixNodesOf(root, << >>) : q[2] = p[2]
                  ELSE \E q \in SuffixNodesOf(root, << >>) :
                           /\ q[1] = p[1]
                           /\ q[2].stem = stem
                           /\ DOMAIN q[2].slot = DOMAIN p[2].slot \cup {suffix}
                           /\ \A i \in DOMAIN p[2].slot \ {suffix} :
                                  q[2].slot[i] = p[2].slot[i]
           /\ \A p \in InnerNodesOf(last.before, << >>) :
                  IF ~IsPrefixOf(p[1], stem)
                  THEN p \in InnerNodesOf(root, << >>)
                  ELSE \E q \in InnerNodesOf(root, << >>) :
                           /\ q[1] = p[1]
                           /\ DOMAIN q[2].slot = DOMAIN p[2].slot \cup {stem[Len(p[1]) + 1]}
                           /\ \A i \in DOMAIN p[2].slot \ {stem[Len(p[1]) + 1]} :
                                  q[2].slot[i] = p[2].slot[i]
           /\ \A q \in InnerNodesOf(root, << >>) :
                  ~IsPrefixOf(q[1], stem) => q \in InnerNodesOf(last.before, << >>)
           /\ \A q \in SuffixNodesOf(root, << >>) :
                  q[2].stem # stem => \E p \in SuffixNodesOf(last.before, << >>) : p[2] = q[2]

\* C20 witness: a split below the root pushed a suffix node down while the
\* root held another child, which stayed as it was; the root's commitment
\* changed.
C20_Witness ==
    /\ last.op = "update" /\ last.case = "split"
    /\ \E p \in SuffixNodesOf(last.before, << >>), q \in SuffixNodesOf(root, << >>) :
           /\ p[2] = q[2] /\ Len(q[1]) > Len(p[1])
    /\ \E i \in DOMAIN last.before.slot :
           /\ i # last.key[1]
           /\ root.slot[i] = last.before.slot[i]
    /\ root.commitment # last.before.commitment

\* Every order in which the elements of a finite set can be listed.
RECURSIVE Orders(_)
Orders(S) ==
    IF S = {} THEN {<< >>}
    ELSE UNION {{<< x >> \o seq : seq \in Orders(S \ {x})} : x \in S}

\* The (key, value) pairs the trie holds, when every key was inserted once.
InsertedPairs == {<< key, values[key] >> : key \in DOMAIN values}
KeysInsertedOnce == inserts = Cardinality(DOMAIN values)

\* The trie that a given order of the pairs builds with update_verkle_tree
\* from the committed empty root, and with the bulk insert followed by one
\* verkle_add_missing_commitments.
BuiltByUpdate(seq) == UpdateAll(verkle_add_missing_commitments(EmptyRoot), seq)
BuiltInBulk(seq) == verkle_add_missing_commitments(NocommitAll(EmptyRoot, seq))

\* C21: for pairwise distinct keys, every order of the inserts, through
\* update_verkle_tree or through the bulk insert and one commitment pass,
\* gives the same inner-node prefixes, the same suffix nodes at the same
\* positions and the same root commitment as the order that built the trie.
C21_OrderIndependent ==
    KeysInsertedOnce =>
        Let(IF committed THEN root ELSE verkle_add_missing_commitments(root), LAMBDA reference :
            \A seq \in Orders(InsertedPairs) :
                \A built \in {BuiltByUpdate(seq), BuiltInBulk(seq)} :
                    /\ InnerPrefixes(built) = InnerPrefixes(reference)
                    /\ SuffixNodesOf(built, << >>) = SuffixNodesOf(reference, << >>)
                    /\ built.commitment = reference.commitment)

\* C21 witness: three keys of three stems were inserted, the last one by a
\* split; the order that inserts that key first gives the same trie.
C21_Witness ==
    /\ KeysInsertedOnce /\ inserts = MaxInserts /\ committed
    /\ last.op = "update" /\ last.case = "split"
    /\ Cardinality(PresentStems(root)) = MaxInserts
    /\ \E seq \in Orders(InsertedPairs) :
           /\ seq[1][1] = last.key
           /\ BuiltByUpdate(seq) = root
           /\ BuiltInBulk(seq) = root

\* Whether a node carries commitment_field (line 268).
HasField(node) == node.commitment_field # NoField

\* What one verkle_add_missing_commitments call may change between a node
\* before and after it: the node's own commitment is the one recomputed from
\* its values or from its children's fields, a child that carried
\* commitment_field is the same with its whole subtree, and a child that
\* carried none went through the same pass.
RECURSIVE OnlyMissingAdded(_, _, _)
OnlyMissingAdded(before, after, prefix) ==
    IF before.node_type = VERKLE_TRIE_NODE_TYPE_SUFFIX_TREE
    THEN /\ after.stem = before.stem
         /\ after.slot = before.slot
         /\ SuffixNodeValid(after, prefix)
    ELSE /\ after.node_type = VERKLE_TRIE_NODE_TYPE_INNER
         /\ DOMAIN after.slot = DOMAIN before.slot
         /\ InnerNodeValid(after)
         /\ \A i \in DOMAIN before.slot :
                IF HasField(before.slot[i]) THEN after.slot[i] = before.slot[i]
                ELSE OnlyMissingAdded(before.slot[i], after.slot[i], Append(prefix, i))

\* The children of the node, anywhere below it, that carry commitment_field
\* while every node between them and the node carries none: the subtrees the
\* pass does not enter.
RECURSIVE CommittedSubtrees(_, _)
CommittedSubtrees(node, prefix) ==
    IF node.node_type = VERKLE_TRIE_NODE_TYPE_SUFFIX_TREE THEN {}
    ELSE UNION {IF HasField(node.slot[i]) THEN {<< Append(prefix, i), node.slot[i] >>}
                ELSE CommittedSubtrees(node.slot[i], Append(prefix, i)) :
                    i \in DOMAIN node.slot}

\* C22: verkle_add_missing_commitments recomputes the commitment of the node
\* it is called on and recurses only into children without commitment_field;
\* a child that carries commitment_field is left unchanged with its whole
\* subtree.  So the trie passes check_valid_tree after the call only if every
\* already-committed child subtree passed it before the call.
C22_OnlyMissing ==
    last.op = "recommit" =>
        /\ OnlyMissingAdded(last.before, root, << >>)
        /\ check_valid_tree(root, << >>).ok <=>
               \A p \in CommittedSubtrees(last.before, << >>) :
                   check_valid_tree(p[2], p[1]).ok

\* C22 witness: the pass entered a child without commitment_field and left
\* alone a child whose commitments were stale, so the trie does not pass
\* check_valid_tree after it.
C22_Witness ==
    /\ last.op = "recommit"
    /\ \E i \in DOMAIN last.before.slot :
           ~HasField(last.before.slot[i]) /\ HasField(root.slot[i])
    /\ \E i \in DOMAIN last.before.slot :
           /\ HasField(last.before.slot[i])
           /\ ~check_valid_tree(last.before.slot[i], << i >>).ok
           /\ root.slot[i] = last.before.slot[i]
    /\ ~check_valid_tree(root, << >>).ok

====
